---- MODULE Spec2Model ----
(***************************************************************************)
(* jjq: a local merge queue on top of jj.  The model follows the jj calls  *)
(* of src/src/commands.rs, queue.rs, config.rs and lock.rs one by one:     *)
(* every jj invocation that reads or writes shared repository state is an  *)
(* atomic step of the process that makes it, and steps of different        *)
(* processes interleave freely.                                            *)
(***************************************************************************)
EXTENDS Naturals, Integers, Sequences, FiniteSets, TLC

VARIABLES
    trunk,      \* target of the trunk bookmark: the list of commits landed on it
    queue,      \* jjq/queue/N bookmarks: id -> candidate, or None
    failed,     \* set of ids N for which jjq/failed/N exists
    headDesc,   \* description of the workspace head commit built by the run of N
    meta,       \* commit the metadata bookmark jjq/_/_ points at
    wsReg,      \* ids N whose workspace jjq-run-N is registered with jj
    wsDir,      \* ids N whose run workspace directory exists on disk
    dups,       \* ids N whose rebase duplicates exist (not abandoned)
    lock,       \* advisory locks: name -> holder, or None
    pc,         \* per process: position in the command it executes
    loc,        \* per process: local variables of the command
    rc,         \* per process: result of the command, set when it returns
    landLog,    \* history: one record per successful trunk move of a run
    allocLog,   \* history: the ids next_id committed to last_id, in order, each
                \* with the last_id the metadata bookmark held just before
    pushLog,    \* history: ids returned by push, in completion order
    budget,     \* remaining environment events (trunk advances, crashes, config writes)
    runlog      \* the lines of .jj/jjq-run.log

repo == <<trunk, queue, failed, headDesc, meta, wsReg, wsDir, dups>>
hist == <<landLog, allocLog, pushLog>>
vars == <<trunk, queue, failed, headDesc, meta, wsReg, wsDir, dups, lock, pc, loc, rc,
          landLog, allocLog, pushLog, budget, runlog>>

(* ------------------------------ bounds --------------------------------- *)
\* sequence ids the model allocates
MaxId == 2
\* commits an outside process may put on trunk while jjq runs
MaxExt == 1
\* process crashes
MaxCrash == 1
\* config writes
MaxCfg == 1
\* run_all counts items up to
MaxCount == 2
\* lines a check command prints
MaxOut == 1
\* pieces of a workspace path between its root and its last component
MaxPath == 3
\* characters of an id string given on the command line
MaxLen == 7
\* the ids 1..MaxSample are formatted and parsed back
MaxSample == 1000

(* ----------------------------- constants ------------------------------- *)
SEQ_MAX == 999999

Procs == {"p1", "p2"}
Ids == 1..MaxId
None == "none"
LockNames == {"run", "id", "config"}
Strategies == {"merge", "rebase"}

\* The change pushed as the k-th candidate, and its commit id.
ChangeOf(k) == IF k = 1 THEN "c1" ELSE IF k = 2 THEN "c2" ELSE "c3"
Changes == {ChangeOf(k) : k \in Ids}
Candidate(c) == [change |-> c, commit |-> <<c, 1>>]
\* The same change after it was rewritten: another commit id.
Amended(c) == [change |-> c, commit |-> <<c, 2>>]

\* Content an outside commit may carry: "xa" touches the lines c1 touches,
\* "c1" is a copy of the content of change c1.
ExtPatches == {"xa", "c1"}

Min(S) == CHOOSE x \in S : \A y \in S : x <= y
Max(S) == IF S = {} THEN 0 ELSE CHOOSE x \in S : \A y \in S : x >= y

(* ------------------------- commits and trees --------------------------- *)
LandCommit(c) == [kind |-> "land", patch |-> c]
ExtCommit(x) == [kind |-> "ext", patch |-> x]

\* The tree of a trunk commit: the patches its history holds.
Tree(t) == {t[i].patch : i \in 1..Len(t)}

\* Two patches that change the same lines.
Clash(a, b) == {a, b} = {"xa", "c1"}

\* jj::has_conflicts on the head built from trunk commit t and candidate c.
has_conflicts(t, c) == c \notin Tree(t) /\ \E y \in Tree(t) : Clash(y, c)

\* jj::trees_match(trunk, head): head built from base and candidate c.
trees_match(t, base, c) == Tree(t) = Tree(base) \cup {c}

\* The candidate is an ancestor of t: the range t..candidate is empty.
IsAncestor(c, t) == \E i \in 1..Len(t) : t[i] = LandCommit(c)

(* ------------------------------ locks ---------------------------------- *)
\* A lock that excludes nobody.
LockFreeAlways(n) == TRUE

\* Lock::acquire: the flock is taken iff no process holds it.
LockFree(n) == lock[n] = None

\* A drop that leaves the flock in place.
ReleaseNothing(p) == lock

\* Dropping every Lock a process holds (RAII on return, the OS on exit).
Release(p) == [n \in LockNames |-> IF lock[n] = p THEN None ELSE lock[n]]

(* ------------------------- metadata branch ----------------------------- *)
\* A bookmark set that forces the bookmark onto the new commit.
MetaSetOkForced(base) == TRUE

\* "jj bookmark set jjq/_/_" from a workspace created on commit base: jj
\* refuses to move a bookmark sideways, so the new commit (a child of base)
\* is accepted only while the bookmark is still at base.
MetaSetOk(base) == meta = base

\* A child commit of base in which last_id was not rewritten.
MetaWithLastIdLost(base, n) == [base EXCEPT !.n = base.n + 1]

\* The child commit of base with file last_id rewritten.
MetaWithLastId(base, n) == [base EXCEPT !.n = base.n + 1, !.last_id = n]
\* The child commit of base with workspace/N written.
MetaWithWorkspace(base, id) == [base EXCEPT !.n = base.n + 1, !.ws = base.ws \cup {id}]
\* The child commit of base with config/<key> written.
MetaWithConfig(base, k, v) ==
    IF k = "strategy" THEN [base EXCEPT !.n = base.n + 1, !.strategy = v]
    ELSE IF k = "trunk_bookmark" THEN [base EXCEPT !.n = base.n + 1, !.trunk_bookmark = v]
    ELSE [base EXCEPT !.n = base.n + 1, !.check = v]

(* --------------------------- process frame ----------------------------- *)
NoCand == [change |-> None, commit |-> <<>>]
NoMeta == [n |-> 0 - 1, last_id |-> 0, ws |-> {}, strategy |-> None, check |-> None,
           trunk_bookmark |-> None]
NoDesc == [kind |-> "none"]
WipDesc == [kind |-> "wip"]

\* The argument of a command: an id string, or a number to format.
NoArg == [kind |-> None, str |-> <<>>, num |-> 0]
StrArg(s) == [kind |-> "str", str |-> s, num |-> 0]
NumArg(n) == [kind |-> "num", str |-> <<>>, num |-> n]

LocInit == [id |-> 0, strat |-> None, snap |-> <<>>, cand |-> NoCand, wsBase |-> <<>>,
            base |-> NoMeta, chk |-> None, onto |-> <<>>, reason |-> None,
            key |-> None, val |-> None, seen |-> None, moved |-> FALSE,
            dq |-> {}, df |-> {},
            all |-> FALSE, stop |-> FALSE, merged |-> 0, nfail |-> 0, skipped |-> 0,
            picked |-> {}, ended |-> FALSE,
            ret |-> None, off |-> 0, pipe |-> 0, emit |-> 0, child |-> None, code |-> 0,
            arg |-> NoArg, str |-> <<>>, parsed |-> 0, cwd |-> "orig", path |-> FALSE,
            running |-> FALSE, qlist |-> <<>>, flist |-> <<>>]

Result(k, m) == [kind |-> k, msg |-> m]
NoResult == Result("none", "")

Goto(p, l) == /\ pc' = [pc EXCEPT ![p] = l]
              /\ rc' = rc

\* Return from the command: every lock the process holds is dropped.
Return(p, r) == /\ pc' = [pc EXCEPT ![p] = "done"]
                /\ rc' = [rc EXCEPT ![p] = r]
                /\ lock' = Release(p)

Set(p, f, v) == loc' = [loc EXCEPT ![p][f] = v]

QueueIds == {n \in DOMAIN queue : queue[n] # NoCand}

(* ------------------------------ run_one -------------------------------- *)
\* commands::run: one invocation of "jjq run" in process slot p.
StartRun(p) ==
    /\ pc[p] = "idle"
    /\ Goto(p, "r_next")
    /\ UNCHANGED <<repo, hist, lock, loc, budget, runlog>>

\* A selection that takes the highest queued id.
next_itemHighest == IF QueueIds = {} THEN 0 ELSE Max(QueueIds)

\* queue::next_item: the first of the queued ids in ascending order; 0 stands
\* for Option::None.
next_item == IF QueueIds = {} THEN 0 ELSE Min(QueueIds)

\* run_one: the lowest queued id is selected, or the result is Empty.
RunNextItem(p) ==
    /\ pc[p] = "r_next"
    /\ IF next_item = 0
       THEN Return(p, Result("Empty", "")) /\ UNCHANGED loc
       ELSE /\ Goto(p, "r_cfglock")
            /\ loc' = [loc EXCEPT ![p].id = next_item,
                                  ![p].picked = @ \cup {next_item}]
            /\ UNCHANGED lock
    /\ UNCHANGED <<repo, hist, budget, runlog>>

\* Lock::acquire_or_fail("config").
RunConfigLock(p) ==
    /\ pc[p] = "r_cfglock"
    /\ IF LockFree("config")
       THEN Goto(p, "r_cfgread") /\ lock' = [lock EXCEPT !["config"] = p]
       ELSE Return(p, Result("Err", "config lock unavailable"))
    /\ UNCHANGED <<repo, hist, loc, budget, runlog>>

\* Read trunk_bookmark, check_command and strategy, then drop the config lock.
RunReadConfig(p) ==
    /\ pc[p] = "r_cfgread"
    /\ IF meta.check = None
       THEN Return(p, Result("Failure", "check_command not configured")) /\ UNCHANGED loc
       ELSE /\ Goto(p, "r_lock")
            /\ Set(p, "strat", meta.strategy)
            /\ lock' = Release(p)
    /\ UNCHANGED <<repo, hist, budget, runlog>>

\* A run that adds its workspace before it asks for the run lock.
RunLockAfterWorkspace(p) ==
    /\ pc[p] = "r_lock"
    /\ wsReg' = wsReg \cup {loc[p].id}
    /\ IF LockFree("run")
       THEN Goto(p, "r_snap") /\ lock' = [lock EXCEPT !["run"] = p]
       ELSE Return(p, Result("Failure", "run lock unavailable"))
    /\ UNCHANGED <<trunk, queue, failed, headDesc, meta, wsDir, dups, hist, loc, budget, runlog>>

\* Lock::acquire("run"), non-blocking.
RunLock(p) ==
    /\ pc[p] = "r_lock"
    /\ IF LockFree("run")
       THEN Goto(p, "r_snap") /\ lock' = [lock EXCEPT !["run"] = p]
       ELSE Return(p, Result("Failure", "run lock unavailable"))
    /\ UNCHANGED <<repo, hist, loc, budget, runlog>>

\* Record trunk's commit id.
RunSnapshot(p) ==
    /\ pc[p] = "r_snap"
    /\ Goto(p, "r_cand")
    /\ Set(p, "snap", trunk)
    /\ UNCHANGED <<repo, hist, lock, budget, runlog>>

\* resolve_revset_full on the queue bookmark: an error when it is gone.
RunResolveCandidate(p) ==
    /\ pc[p] = "r_cand"
    /\ IF queue[loc[p].id] = NoCand
       THEN Return(p, Result("Err", "revset not found")) /\ UNCHANGED loc
       ELSE /\ Goto(p, IF loc[p].strat = "rebase" THEN "r_dup" ELSE "r_wsadd")
            /\ Set(p, "cand", queue[loc[p].id])
            /\ UNCHANGED lock
    /\ UNCHANGED <<repo, hist, budget, runlog>>

\* Rebase strategy: jj::duplicate_onto(queue bookmark, trunk).  The range
\* trunk..candidate is empty when the bookmark is gone or the candidate is
\* already an ancestor of trunk, and duplicate_onto then fails.
RunDuplicate(p) ==
    /\ pc[p] = "r_dup"
    /\ IF queue[loc[p].id] = NoCand \/ IsAncestor(loc[p].cand.change, trunk)
       THEN Return(p, Result("Err", "failed to parse change ID from jj duplicate output"))
            /\ UNCHANGED <<loc, dups>>
       ELSE /\ Goto(p, "r_wsadd")
            /\ dups' = dups \cup {loc[p].id}
            /\ Set(p, "wsBase", trunk)
            /\ UNCHANGED lock
    /\ UNCHANGED <<trunk, queue, failed, headDesc, meta, wsReg, wsDir, hist, budget, runlog>>

\* TempDir::drop when run_one returns without TempDir::keep: the directory of
\* the run workspace is removed.
DropTempDir(p) == wsDir' = wsDir \ {loc[p].id}

\* TempDir::new and jj::workspace_add(jjq-run-N): the add fails when the name
\* is already registered or (merge) when the queue bookmark names no revision,
\* and the new directory is gone again when the error is returned.
WorkspaceAddOk(p) ==
    /\ loc[p].id \notin wsReg
    /\ loc[p].strat = "merge" => queue[loc[p].id] # NoCand

RunWorkspaceAdd(p) ==
    /\ pc[p] = "r_wsadd"
    /\ IF WorkspaceAddOk(p)
       THEN /\ Goto(p, "r_meta")
            /\ wsReg' = wsReg \cup {loc[p].id}
            /\ wsDir' = wsDir \cup {loc[p].id}
            /\ headDesc' = [headDesc EXCEPT ![loc[p].id] = NoDesc]
            /\ IF loc[p].strat = "merge" THEN Set(p, "wsBase", trunk) ELSE UNCHANGED loc
            /\ UNCHANGED lock
       ELSE Return(p, Result("Err", "jj workspace add failed"))
            /\ UNCHANGED <<loc, wsReg, wsDir, headDesc>>
    /\ UNCHANGED <<trunk, queue, failed, meta, dups, hist, budget, runlog>>

\* record_workspace_metadata: workspace_add of jjq-meta-PID on jjq/_/_ and
\* env::set_current_dir into it.
RunMetaWorkspace(p) ==
    /\ pc[p] = "r_meta"
    /\ Goto(p, "r_metaset")
    /\ loc' = [loc EXCEPT ![p].base = meta, ![p].cwd = "meta"]
    /\ UNCHANGED <<repo, hist, lock, budget, runlog>>

\* record_workspace_metadata: write workspace/N, describe, bookmark set,
\* env::set_current_dir(orig_dir); then (back in run_one)
\* env::set_current_dir into the run workspace and has_conflicts on its head,
\* a commit only this run knows.
RunMetaSet(p) ==
    /\ pc[p] = "r_metaset"
    /\ IF MetaSetOk(loc[p].base)
       THEN /\ meta' = MetaWithWorkspace(loc[p].base, loc[p].id)
            /\ IF has_conflicts(loc[p].wsBase, loc[p].cand.change)
               THEN Goto(p, "f_del")
                    /\ loc' = [loc EXCEPT ![p].reason = "conflicts", ![p].cwd = "run"]
               ELSE Goto(p, "r_empty") /\ Set(p, "cwd", "run")
            /\ UNCHANGED <<lock, wsDir>>
       ELSE /\ Return(p, Result("Err", "jj bookmark set failed"))
            /\ DropTempDir(p)
            /\ UNCHANGED <<loc, meta>>
    /\ UNCHANGED <<trunk, queue, failed, headDesc, wsReg, dups, hist, budget, runlog>>

\* jj::trees_match(trunk bookmark, workspace head); a non-empty head is then
\* described as WIP.
RunEmptyCheck(p) ==
    /\ pc[p] = "r_empty"
    /\ IF trees_match(trunk, loc[p].wsBase, loc[p].cand.change)
       THEN Goto(p, "s_del") /\ UNCHANGED headDesc
       ELSE Goto(p, "r_check") /\ headDesc' = [headDesc EXCEPT ![loc[p].id] = WipDesc]
    /\ UNCHANGED <<trunk, queue, failed, meta, wsReg, wsDir, dups, hist, lock, loc, budget, runlog>>

\* An exit status test that takes every exit code for success.
CheckSuccessAlways(code) == TRUE

\* ExitStatus::success of the check command's exit code.
CheckSuccess(code) == code = 0

\* run_one on the exit status of the check command: on to the landing, or
\* to marking the entry failed.
RunCheckResult(p, code) ==
    IF CheckSuccess(code)
    THEN Goto(p, "r_verify") /\ Set(p, "chk", IF code = 0 THEN "pass" ELSE "fail")
    ELSE Goto(p, "f_del") /\ loc' = [loc EXCEPT ![p].chk = IF code = 0 THEN "pass" ELSE "fail",
                                             ![p].reason = "check"]

\* runner::run_check_command as one step, the run log left out of account:
\* the exit status is the check command's.
RunCheck(p) ==
    /\ pc[p] = "r_check"
    /\ \E code \in {0, 1} : RunCheckResult(p, code)
    /\ UNCHANGED <<repo, hist, lock, budget, runlog>>

(* ------------------------- run_check_command --------------------------- *)
\* Lines of the run log: output of the check command of p, the sentinel
\* "--- jjq: run complete (exit N) ---", or a hole left by a write past the end.
OutLine(p) == [by |-> p, kind |-> "out", code |-> 0]
sentinel_line(p, code) == [by |-> p, kind |-> "sentinel", code |-> code]
Hole == [by |-> None, kind |-> "hole", code |-> 0]

\* write(2) of one line at offset off of the file.
WriteAt(f, off, line) ==
    [i \in 1..Max({Len(f), off + 1}) |->
        IF i = off + 1 THEN line ELSE IF i <= Len(f) THEN f[i] ELSE Hole]

\* File::create truncates the log; the check command is spawned with its
\* output piped to the reader thread.
LogOpen(p) ==
    /\ pc[p] \in {"r_check", "ck_open"}
    /\ runlog' = <<>>
    /\ pc' = [pc EXCEPT ![p] = "k_run"]
    /\ rc' = rc
    /\ loc' = [loc EXCEPT ![p].ret = IF pc[p] = "r_check" THEN "run" ELSE "check",
                          ![p].off = 0, ![p].pipe = 0, ![p].emit = 0,
                          ![p].child = "running"]
    /\ UNCHANGED <<repo, hist, lock, budget>>

\* The check command writes a line to its stdout.
ChildEmit(p) ==
    /\ pc[p] = "k_run"
    /\ loc[p].child = "running"
    /\ loc[p].emit < MaxOut
    /\ loc' = [loc EXCEPT ![p].pipe = @ + 1, ![p].emit = @ + 1]
    /\ UNCHANGED <<repo, hist, lock, pc, rc, budget, runlog>>

\* The reader thread takes a line from the pipe, writes it to the log and
\* flushes.
ReaderWrite(p) ==
    /\ pc[p] = "k_run"
    /\ loc[p].pipe > 0
    /\ runlog' = WriteAt(runlog, loc[p].off, OutLine(p))
    /\ loc' = [loc EXCEPT ![p].pipe = @ - 1, ![p].off = @ + 1]
    /\ UNCHANGED <<repo, hist, lock, pc, rc, budget>>

\* The check command exits; wait returns its status.
ChildExit(p) ==
    /\ pc[p] = "k_run"
    /\ loc[p].child = "running"
    /\ \E code \in {0, 1} : loc' = [loc EXCEPT ![p].child = "exited", ![p].code = code]
    /\ UNCHANGED <<repo, hist, lock, pc, rc, budget, runlog>>

\* JoinHandle::join of the reader thread: it has met the end of the pipe.
ReaderJoined(p) == loc[p].pipe = 0

\* The log is opened again for append and the sentinel line is written.
LogSentinel(p) ==
    /\ pc[p] = "k_run"
    /\ loc[p].child = "exited"
    /\ ReaderJoined(p)
    /\ runlog' = Append(runlog, sentinel_line(p, loc[p].code))
    /\ Goto(p, "k_ret")
    /\ loc' = [loc EXCEPT ![p].off = 0, ![p].emit = 0, ![p].child = None]
    /\ UNCHANGED <<repo, hist, lock, budget>>

\* run_check_command returns to run_one.
RunCheckReturn(p) ==
    /\ pc[p] = "k_ret"
    /\ loc[p].ret = "run"
    /\ RunCheckResult(p, loc[p].code)
    /\ UNCHANGED <<repo, hist, lock, budget, runlog>>

\* runner::run_check_command, step by step.
RunCheckStep(p) ==
    \/ LogOpen(p) \/ ChildEmit(p) \/ ReaderWrite(p) \/ ChildExit(p) \/ LogSentinel(p)
    \/ RunCheckReturn(p)

(* ------------------------------- check --------------------------------- *)
\* commands::check: the revset resolves.
StartCheck(p) ==
    /\ pc[p] = "idle"
    /\ Goto(p, "ck_cfg")
    /\ UNCHANGED <<repo, hist, lock, loc, budget, runlog>>

\* commands::check: the check command is read, the temporary workspace
\* jjq-check-<pid> is added and entered; no lock is taken.
CheckReadConfig(p) ==
    /\ pc[p] = "ck_cfg"
    /\ IF meta.check = None
       THEN Return(p, Result("Usage", "check_command not configured")) /\ UNCHANGED loc
       ELSE Goto(p, "ck_open") /\ Set(p, "cwd", "check") /\ UNCHANGED lock
    /\ UNCHANGED <<repo, hist, budget, runlog>>

\* commands::check: the log was printed, env::set_current_dir(orig_dir), the
\* workspace is forgotten.
CheckReturn(p) ==
    /\ pc[p] = "k_ret"
    /\ loc[p].ret = "check"
    /\ Set(p, "cwd", "orig")
    /\ IF CheckSuccess(loc[p].code)
       THEN Return(p, Result("Ok", "check passed"))
       ELSE Return(p, Result("Failure", "check failed"))
    /\ UNCHANGED <<repo, hist, budget, runlog>>

CheckStep(p) == StartCheck(p) \/ CheckReadConfig(p) \/ CheckReturn(p)

\* commands::failure_description: the six trailers of a failed entry.
failure_description(id, reason, cand, snap, strat) ==
    [kind |-> "failed", candidate |-> cand.change, candidate_commit |-> cand.commit,
     trunk |-> snap, workspace |-> id, failure |-> reason, strategy |-> strat]

\* MarkFailed without its first call: the queue bookmark is left in place.
FailDeleteQueueKept(p) ==
    /\ pc[p] = "f_del"
    /\ Goto(p, "f_create")
    /\ UNCHANGED <<repo, hist, lock, loc, budget, runlog>>

\* MarkFailed, first call: jj::bookmark_delete(queue bookmark).
FailDeleteQueue(p) ==
    /\ pc[p] = "f_del"
    /\ IF queue[loc[p].id] = NoCand
       THEN /\ Return(p, Result("Err", "jj bookmark delete failed"))
            /\ DropTempDir(p)
            /\ UNCHANGED queue
       ELSE /\ Goto(p, "f_create")
            /\ queue' = [queue EXCEPT ![loc[p].id] = NoCand]
            /\ UNCHANGED <<lock, wsDir>>
    /\ UNCHANGED <<trunk, failed, headDesc, meta, wsReg, dups, hist, loc, budget, runlog>>

\* MarkFailed, second call: jj::bookmark_create(failed bookmark, head).
FailCreateFailed(p) ==
    /\ pc[p] = "f_create"
    /\ IF loc[p].id \in failed
       THEN /\ Return(p, Result("Err", "jj bookmark create failed"))
            /\ DropTempDir(p)
            /\ UNCHANGED failed
       ELSE /\ Goto(p, "f_desc")
            /\ failed' = failed \cup {loc[p].id}
            /\ UNCHANGED <<lock, wsDir>>
    /\ UNCHANGED <<trunk, queue, headDesc, meta, wsReg, dups, hist, loc, budget, runlog>>

\* MarkFailed, third call: jj::describe(head, failure_description); then
\* env::set_current_dir(orig_dir), the workspace directory is kept, the run
\* lock dropped and Failure returned.
FailDescribe(p) ==
    /\ pc[p] = "f_desc"
    /\ headDesc' = [headDesc EXCEPT ![loc[p].id] =
            failure_description(loc[p].id, loc[p].reason, loc[p].cand, loc[p].snap,
                                loc[p].strat)]
    /\ Set(p, "cwd", "orig")
    /\ Return(p, Result("Failure", IF loc[p].reason = "conflicts"
                                   THEN "merge has conflicts" ELSE "merge check failed"))
    /\ UNCHANGED <<trunk, queue, failed, meta, wsReg, wsDir, dups, hist, budget, runlog>>

\* Empty path, first call: jj::bookmark_delete(queue bookmark).
SkipDeleteQueue(p) ==
    /\ pc[p] = "s_del"
    /\ IF queue[loc[p].id] = NoCand
       THEN /\ Return(p, Result("Err", "jj bookmark delete failed"))
            /\ DropTempDir(p)
            /\ UNCHANGED queue
       ELSE /\ Goto(p, IF loc[p].strat = "rebase" THEN "s_abandon" ELSE "s_forget")
            /\ queue' = [queue EXCEPT ![loc[p].id] = NoCand]
            /\ UNCHANGED <<lock, wsDir>>
    /\ UNCHANGED <<trunk, failed, headDesc, meta, wsReg, dups, hist, loc, budget, runlog>>

\* Empty path, rebase: abandon every duplicate (errors ignored).
SkipAbandon(p) ==
    /\ pc[p] = "s_abandon"
    /\ Goto(p, "s_forget")
    /\ dups' = dups \ {loc[p].id}
    /\ UNCHANGED <<trunk, queue, failed, headDesc, meta, wsReg, wsDir, hist, lock, loc, budget, runlog>>

\* A cleanup that forgets the workspace from inside its directory.
ForgetAndReturnInside(p, r) ==
    /\ DropTempDir(p)
    /\ IF loc[p].id \in wsReg
       THEN wsReg' = wsReg \ {loc[p].id} /\ Return(p, r)
       ELSE UNCHANGED wsReg /\ Return(p, Result("Err", "jj workspace forget failed"))
    /\ UNCHANGED <<trunk, queue, failed, headDesc, meta, dups, hist, loc, budget, runlog>>

\* env::set_current_dir(orig_dir), jj::workspace_forget(jjq-run-N), drop the
\* run lock, return r; the TempDir is dropped with the locals.
ForgetAndReturn(p, r) ==
    /\ Set(p, "cwd", "orig")
    /\ DropTempDir(p)
    /\ IF loc[p].id \in wsReg
       THEN wsReg' = wsReg \ {loc[p].id} /\ Return(p, r)
       ELSE UNCHANGED wsReg /\ Return(p, Result("Err", "jj workspace forget failed"))
    /\ UNCHANGED <<trunk, queue, failed, headDesc, meta, dups, hist, budget, runlog>>

SkipForget(p) ==
    /\ pc[p] = "s_forget"
    /\ ForgetAndReturn(p, Result("Skipped", ""))

\* A verification that never sees trunk move.
TrunkMovedNever(snap, cur) == FALSE

\* Verify trunk hasn't moved: the re-read commit id against the snapshot.
TrunkMoved(snap, cur) == snap # cur

\* A landing that deletes the queue bookmark without moving trunk first.
RunVerifyTrunkDeleteFirst(p) ==
    /\ pc[p] = "r_verify"
    /\ IF TrunkMoved(loc[p].snap, trunk)
       THEN Goto(p, IF loc[p].strat = "rebase" THEN "t_abandon" ELSE "t_forget")
       ELSE Goto(p, "l_delq")
    /\ Set(p, "seen", IF loc[p].snap # trunk THEN "moved" ELSE "same")
    /\ UNCHANGED <<repo, hist, lock, budget, runlog>>

RunVerifyTrunk(p) ==
    /\ pc[p] = "r_verify"
    /\ IF TrunkMoved(loc[p].snap, trunk)
       THEN Goto(p, IF loc[p].strat = "rebase" THEN "t_abandon" ELSE "t_forget")
       ELSE Goto(p, IF loc[p].strat = "rebase" THEN "l_rebase" ELSE "l_move")
    /\ Set(p, "seen", IF loc[p].snap # trunk THEN "moved" ELSE "same")
    /\ UNCHANGED <<repo, hist, lock, budget, runlog>>

\* Trunk moved, rebase: abandon every duplicate (errors ignored).
MovedAbandon(p) ==
    /\ pc[p] = "t_abandon"
    /\ Goto(p, "t_forget")
    /\ dups' = dups \ {loc[p].id}
    /\ UNCHANGED <<trunk, queue, failed, headDesc, meta, wsReg, wsDir, hist, lock, loc, budget, runlog>>

MovedForget(p) ==
    /\ pc[p] = "t_forget"
    /\ ForgetAndReturn(p, Result("Failure", "trunk moved during run"))

\* Rebase landing: env::set_current_dir(orig_dir), then
\* jj::rebase_branch_onto(candidate, trunk bookmark).
LandRebase(p) ==
    /\ pc[p] = "l_rebase"
    /\ Goto(p, "l_move")
    /\ loc' = [loc EXCEPT ![p].onto = trunk, ![p].cwd = "orig"]
    /\ UNCHANGED <<repo, hist, lock, budget, runlog>>

IsPrefix(a, b) == Len(a) <= Len(b) /\ SubSeq(b, 1, Len(a)) = a

\* jj::bookmark_move(name, from, to): "jj bookmark move --from from --to to":
\* the bookmark moves only if it is at from, and only forwards.
BookmarkMoveOk(cur, from, to) == cur = from /\ IsPrefix(cur, to)

\* The commit a run lands: the workspace head (merge) or the candidate
\* rebased onto trunk (rebase).
LandTarget(p) ==
    Append(IF loc[p].strat = "rebase" THEN loc[p].onto ELSE loc[p].wsBase,
           LandCommit(loc[p].cand.change))

\* A rebase landing that moves trunk to the tip duplicate.
LandedChangeDuplicate(p) ==
    [of |-> loc[p].cand.change,
     as |-> IF loc[p].strat = "rebase" THEN "duplicate" ELSE "merge"]

\* The change trunk is moved to: the candidate's own change ID under rebase
\* (candidate_change_id), the workspace's merge commit "@" under merge.
LandedChange(p) ==
    [of |-> loc[p].cand.change,
     as |-> IF loc[p].strat = "rebase" THEN "original" ELSE "merge"]

LandMoveTrunk(p) ==
    /\ pc[p] = "l_move"
    /\ IF BookmarkMoveOk(trunk, loc[p].snap, LandTarget(p))
       THEN /\ trunk' = LandTarget(p)
            /\ landLog' = landLog \cup
                 {[id |-> loc[p].id, change |-> loc[p].cand.change,
                   strat |-> loc[p].strat, chk |-> loc[p].chk,
                   snap |-> loc[p].snap, wsBase |-> loc[p].wsBase, at |-> trunk,
                   locked |-> lock["run"] = p, rev |-> LandedChange(p)]}
            /\ Goto(p, "l_delq")
            /\ UNCHANGED <<lock, wsDir>>
       ELSE /\ Return(p, Result("Err", "jj bookmark move failed"))
            /\ DropTempDir(p)
            /\ UNCHANGED <<trunk, landLog>>
    /\ UNCHANGED <<queue, failed, headDesc, meta, wsReg, dups, allocLog, pushLog, loc, budget, runlog>>

\* Landing: jj::bookmark_delete(queue bookmark), then describe the landed commit.
LandDeleteQueue(p) ==
    /\ pc[p] = "l_delq"
    /\ IF queue[loc[p].id] = NoCand
       THEN /\ Return(p, Result("Err", "jj bookmark delete failed"))
            /\ DropTempDir(p)
            /\ UNCHANGED queue
       ELSE /\ Goto(p, IF loc[p].strat = "rebase" THEN "l_abandon" ELSE "l_forget")
            /\ queue' = [queue EXCEPT ![loc[p].id] = NoCand]
            /\ UNCHANGED <<lock, wsDir>>
    /\ UNCHANGED <<trunk, failed, headDesc, meta, wsReg, dups, hist, loc, budget, runlog>>

\* Rebase landing: abandon every duplicate.
LandAbandon(p) ==
    /\ pc[p] = "l_abandon"
    /\ Goto(p, "l_forget")
    /\ dups' = dups \ {loc[p].id}
    /\ UNCHANGED <<trunk, queue, failed, headDesc, meta, wsReg, wsDir, hist, lock, loc, budget, runlog>>

LandForget(p) ==
    /\ pc[p] = "l_forget"
    /\ ForgetAndReturn(p, Result("Success", ""))

\* The process exits: its slot is free for the next invocation.
Exit(p) ==
    /\ pc[p] = "done"
    /\ ~loc[p].all
    /\ pc' = [pc EXCEPT ![p] = "idle"]
    /\ rc' = [rc EXCEPT ![p] = NoResult]
    /\ loc' = [loc EXCEPT ![p] = LocInit]
    /\ UNCHANGED <<repo, hist, lock, budget, runlog>>

(* ------------------------------ run_all -------------------------------- *)
\* Exit codes of exit_codes.rs; PARTIAL is used by run_all.
CONFLICT == 1
PARTIAL == 2
LOCK_HELD == 3
USAGE == 10

\* main: the exit code of the process for the result of its command.
ExitCode(r) ==
    CASE r.kind \in {"Ok", "Success", "Empty", "Skipped"} -> 0
      [] r.kind = "Partial" -> PARTIAL
      [] r.kind = "Conflict" -> CONFLICT
      [] r.kind = "Failure" -> IF r.msg = "could not acquire sequence ID lock"
                               THEN LOCK_HELD ELSE CONFLICT
      [] r.kind = "Usage" -> USAGE
      [] OTHER -> 1

\* The u32 counters of run_all, followed up to MaxCount.
Incr(n) == Min({n + 1, MaxCount})

\* commands::run with --all: run_all(stop_on_failure) enters its loop.
StartRunAll(p, stop) ==
    /\ pc[p] = "idle"
    /\ Goto(p, "r_next")
    /\ loc' = [loc EXCEPT ![p].all = TRUE, ![p].stop = stop]
    /\ UNCHANGED <<repo, hist, lock, budget, runlog>>

\* The locals of run_all, kept over one more call of run_one.
Again(p, f) ==
    /\ pc' = [pc EXCEPT ![p] = "r_next"]
    /\ rc' = [rc EXCEPT ![p] = NoResult]
    /\ loc' = [loc EXCEPT ![p] = [LocInit EXCEPT !.all = TRUE,
                                                 !.stop = loc[p].stop,
                                                 !.picked = loc[p].picked,
                                                 !.merged = loc[p].merged,
                                                 !.nfail = loc[p].nfail,
                                                 !.skipped = loc[p].skipped,
                                                 ![f] = Incr(loc[p][f])]]

\* run_all ends with result r.
Finish(p, r) ==
    /\ pc' = pc
    /\ rc' = [rc EXCEPT ![p] = r]
    /\ loc' = [loc EXCEPT ![p].all = FALSE, ![p].ended = TRUE]

\* run_one returned Success: merged_count += 1 and the loop goes on.
RunAllSuccess(p) ==
    /\ pc[p] = "done" /\ loc[p].all
    /\ rc[p].kind = "Success"
    /\ Again(p, "merged")
    /\ UNCHANGED <<repo, hist, lock, budget, runlog>>

\* run_one returned Skipped: skipped_count += 1 and the loop goes on.
RunAllSkipped(p) ==
    /\ pc[p] = "done" /\ loc[p].all
    /\ rc[p].kind = "Skipped"
    /\ Again(p, "skipped")
    /\ UNCHANGED <<repo, hist, lock, budget, runlog>>

\* A loop that --stop-on-failure does not end.
StopsNever(stop) == FALSE

\* run_all: "if stop_on_failure".
Stops(stop) == stop

\* run_one returned Failure: with --stop-on-failure run_all returns
\* ExitError(CONFLICT, msg); without it failed_count += 1 and the loop goes on.
RunAllFailure(p) ==
    /\ pc[p] = "done" /\ loc[p].all
    /\ rc[p].kind = "Failure"
    /\ IF Stops(loc[p].stop)
       THEN Finish(p, Result("Conflict", rc[p].msg))
       ELSE Again(p, "nfail")
    /\ UNCHANGED <<repo, hist, lock, budget, runlog>>

\* A result that is PARTIAL only when an item was merged as well.
LoopResultNeedsSuccess(merged, nfail) ==
    IF nfail > 0 /\ merged > 0
    THEN Result("Partial", "processed, some failed") ELSE Result("Ok", "processed")

\* The result of run_all after its loop: PARTIAL when failed_count > 0.
LoopResult(merged, nfail) ==
    IF nfail > 0 THEN Result("Partial", "processed, some failed") ELSE Result("Ok", "processed")

\* run_one returned Empty: the loop breaks.
RunAllEmpty(p) ==
    /\ pc[p] = "done" /\ loc[p].all
    /\ rc[p].kind = "Empty"
    /\ Finish(p, LoopResult(loc[p].merged, loc[p].nfail))
    /\ UNCHANGED <<repo, hist, lock, budget, runlog>>

\* run_one returned an error: "?" passes it on.
RunAllError(p) ==
    /\ pc[p] = "done" /\ loc[p].all
    /\ rc[p].kind = "Err"
    /\ Finish(p, rc[p])
    /\ UNCHANGED <<repo, hist, lock, budget, runlog>>

RunAllStep(p) ==
    \/ \E stop \in BOOLEAN : StartRunAll(p, stop)
    \/ RunAllSuccess(p) \/ RunAllSkipped(p) \/ RunAllFailure(p) \/ RunAllEmpty(p)
    \/ RunAllError(p)

(* ---------------------------- environment ------------------------------ *)
\* Positions of a run between its trunk snapshot and its trunk move.
BeforeLanding == {"r_cand", "r_dup", "r_wsadd", "r_meta", "r_metaset", "r_empty",
                  "r_check", "r_verify", "l_rebase", "l_move"}

\* A process outside jjq advances the trunk bookmark to a new commit.
ExtAdvanceTrunk ==
    /\ budget.ext > 0
    /\ \E x \in ExtPatches :
         /\ x \notin Tree(trunk)
         /\ trunk' = Append(trunk, ExtCommit(x))
    /\ budget' = [budget EXCEPT !.ext = @ - 1]
    /\ loc' = [p \in Procs |-> IF pc[p] \in BeforeLanding
                               THEN [loc[p] EXCEPT !.moved = TRUE] ELSE loc[p]]
    /\ UNCHANGED <<queue, failed, headDesc, meta, wsReg, wsDir, dups, hist, lock, pc, rc, runlog>>

\* The process dies inside a command: the OS drops its flocks; what it had
\* written to the repository stays.
Crash(p) ==
    /\ pc[p] \notin {"idle", "done"}
    /\ budget.crash > 0
    /\ budget' = [budget EXCEPT !.crash = @ - 1]
    /\ pc' = [pc EXCEPT ![p] = "idle"]
    /\ rc' = [rc EXCEPT ![p] = NoResult]
    /\ loc' = [loc EXCEPT ![p] = LocInit]
    /\ lock' = Release(p)
    /\ UNCHANGED <<repo, hist, runlog>>

(* -------------------------------- push --------------------------------- *)
\* commands::push: resolve the revset to (change id, commit id); the trunk
\* bookmark exists.
StartPush(p, c) ==
    /\ pc[p] = "idle"
    /\ Goto(p, "p_scanq")
    /\ Set(p, "cand", Candidate(c))
    /\ UNCHANGED <<repo, hist, lock, budget, runlog>>

\* commands::push of the first change after it was rewritten.
StartPushAmended(p) ==
    /\ pc[p] = "idle"
    /\ Goto(p, "p_scanq")
    /\ Set(p, "cand", Amended(ChangeOf(1)))
    /\ UNCHANGED <<repo, hist, lock, budget, runlog>>

\* Queue entries of the same change with another commit id.
Stale(n, cand) == queue[n].change = cand.change /\ queue[n].commit # cand.commit
\* Queue entries with the same commit id.
SameCommit(cand) == {n \in QueueIds : queue[n].commit = cand.commit}

\* The scan of the queue bookmarks, in ascending order: an entry with the
\* same commit id ends the push; an entry of the same change met before
\* that is deleted.
PushScanQueue(p) ==
    /\ pc[p] = "p_scanq"
    /\ LET cand == loc[p].cand
           stop == IF SameCommit(cand) = {} THEN SEQ_MAX + 1 ELSE Min(SameCommit(cand))
           gone == {n \in DOMAIN queue : n < stop /\ queue[n] # NoCand /\ Stale(n, cand)}
       IN /\ queue' = [n \in DOMAIN queue |-> IF n \in gone THEN NoCand ELSE queue[n]]
          /\ Set(p, "dq", gone)
          /\ IF SameCommit(cand) = {}
             THEN Goto(p, "p_scanf") /\ UNCHANGED lock
             ELSE Return(p, Result("Usage", "revision already queued"))
    /\ UNCHANGED <<trunk, failed, headDesc, meta, wsReg, wsDir, dups, hist, budget, runlog>>

\* commands::extract_trailers(description).get("candidate").
TrailerCandidate(d) == IF d.kind = "failed" THEN d.candidate ELSE None

\* The scan of the failed bookmarks: one whose jjq-candidate trailer is the
\* pushed change id is deleted.
PushScanFailed(p) ==
    /\ pc[p] = "p_scanf"
    /\ failed' = {n \in failed : TrailerCandidate(headDesc[n]) # loc[p].cand.change}
    /\ Set(p, "df", {n \in failed : TrailerCandidate(headDesc[n]) = loc[p].cand.change})
    /\ Goto(p, "p_pre")
    /\ UNCHANGED <<trunk, queue, headDesc, meta, wsReg, wsDir, dups, hist, lock, budget, runlog>>

\* Pre-flight: a headless merge of trunk and the revision, tested for
\* conflicts and abandoned.
PushPreflight(p) ==
    /\ pc[p] = "p_pre"
    /\ IF has_conflicts(trunk, loc[p].cand.change)
       THEN Return(p, Result("Failure", "revision conflicts with trunk"))
       ELSE Goto(p, "n_lock") /\ UNCHANGED lock
    /\ UNCHANGED <<repo, hist, loc, budget, runlog>>

\* queue::next_id: Lock::acquire("id").  The model follows the ids of
\* DOMAIN queue only: a push that would take an id outside of it, other than
\* one past SEQ_MAX, waits here.
NextIdLock(p) ==
    /\ pc[p] = "n_lock"
    /\ IF LockFree("id")
       THEN /\ meta.last_id + 1 \in DOMAIN queue \/ meta.last_id >= SEQ_MAX
            /\ Goto(p, "n_ws")
            /\ lock' = [lock EXCEPT !["id"] = p]
       ELSE Return(p, Result("Failure", "could not acquire sequence ID lock"))
    /\ UNCHANGED <<repo, hist, loc, budget, runlog>>

\* An exhaustion test that lets the id one past the last one through.
ExhaustedAbove(current) == current > SEQ_MAX

\* queue::next_id: current >= 999999.
Exhausted(current) == current >= SEQ_MAX

\* queue::next_id: workspace_add on jjq/_/_, env::set_current_dir into it,
\* read last_id, increment; at 999999 the directory is restored before the
\* error is returned.
NextIdRead(p) ==
    /\ pc[p] = "n_ws"
    /\ IF Exhausted(meta.last_id)
       THEN Return(p, Result("Usage", "sequence ID exhausted")) /\ UNCHANGED loc
       ELSE /\ Goto(p, "n_set")
            /\ loc' = [loc EXCEPT ![p].base = meta, ![p].id = meta.last_id + 1,
                                  ![p].cwd = "meta"]
            /\ UNCHANGED lock
    /\ UNCHANGED <<repo, hist, budget, runlog>>

\* An allocation that hands out the id without moving the metadata bookmark.
NextIdSetUnwritten(p) ==
    /\ pc[p] = "n_set"
    /\ Goto(p, "n_ret")
    /\ UNCHANGED <<repo, hist, lock, loc, budget, runlog>>

\* queue::next_id: write last_id, describe, bookmark set.
NextIdSet(p) ==
    /\ pc[p] = "n_set"
    /\ IF MetaSetOk(loc[p].base)
       THEN /\ meta' = MetaWithLastId(loc[p].base, loc[p].id)
            /\ allocLog' = Append(allocLog, [id |-> loc[p].id, prev |-> meta.last_id])
            /\ Goto(p, "n_ret")
            /\ UNCHANGED lock
       ELSE Return(p, Result("Err", "jj bookmark set failed")) /\ UNCHANGED <<meta, allocLog>>
    /\ UNCHANGED <<trunk, queue, failed, headDesc, wsReg, wsDir, dups, landLog, pushLog, loc, budget, runlog>>

\* queue::next_id: env::set_current_dir(orig_dir), forget the workspace and
\* return the id; the id lock drops.
NextIdReturn(p) ==
    /\ pc[p] = "n_ret"
    /\ Goto(p, "p_create")
    /\ Set(p, "cwd", "orig")
    /\ lock' = Release(p)
    /\ UNCHANGED <<repo, hist, budget, runlog>>

\* jj::bookmark_create(jjq/queue/N, revset).
PushCreate(p) ==
    /\ pc[p] = "p_create"
    /\ IF queue[loc[p].id] # NoCand
       THEN Return(p, Result("Err", "jj bookmark create failed")) /\ UNCHANGED queue
       ELSE /\ queue' = [queue EXCEPT ![loc[p].id] = loc[p].cand]
            /\ Goto(p, "p_done")
            /\ UNCHANGED lock
    /\ UNCHANGED <<trunk, failed, headDesc, meta, wsReg, wsDir, dups, hist, loc, budget, runlog>>

\* "queued at N" is printed and push returns.
PushDone(p) ==
    /\ pc[p] = "p_done"
    /\ pushLog' = Append(pushLog, loc[p].id)
    /\ Return(p, Result("Ok", "queued"))
    /\ UNCHANGED <<repo, landLog, allocLog, loc, budget, runlog>>

PushStep(p) ==
    \/ \E c \in Changes : StartPush(p, c)
    \/ StartPushAmended(p)
    \/ PushScanQueue(p) \/ PushScanFailed(p) \/ PushPreflight(p) \/ NextIdLock(p)
    \/ NextIdRead(p) \/ NextIdSet(p) \/ NextIdReturn(p) \/ PushCreate(p) \/ PushDone(p)

(* ----------------------------- config set ------------------------------ *)
\* config::is_initialized: the metadata bookmark exists.
is_initializedNever == FALSE

is_initialized == meta # NoMeta

\* A key set that still holds the key of older versions.
VALID_KEYSWithMaxFailures == {"trunk_bookmark", "check_command", "strategy", "max_failures"}

VALID_KEYS == {"trunk_bookmark", "check_command", "strategy"}

\* config::get_trunk_bookmark, get_check_command (as commands::config prints
\* it) and get_strategy read from metadata commit m.
ConfigRead(m, k) ==
    CASE k = "trunk_bookmark" -> IF m.trunk_bookmark = None THEN "main" ELSE m.trunk_bookmark
      [] k = "check_command" -> IF m.check = None THEN "" ELSE m.check
      [] OTHER -> IF m.strategy = None THEN "merge" ELSE m.strategy
ConfigInputs == {<<"strategy", "merge">>, <<"strategy", "rebase">>, <<"strategy", "squash">>,
                 <<"check_command", "true">>, <<"max_failures", "3">>}

\* commands::config (Some(k), Some(v)): Lock::acquire_or_fail("config").
StartConfigSet(p, kv) ==
    /\ pc[p] = "idle"
    /\ budget.cfg > 0
    /\ budget' = [budget EXCEPT !.cfg = @ - 1]
    /\ IF LockFree("config")
       THEN /\ Goto(p, "c_ws")
            /\ lock' = [lock EXCEPT !["config"] = p]
            /\ loc' = [loc EXCEPT ![p].key = kv[1], ![p].val = kv[2]]
       ELSE Return(p, Result("Err", "config lock unavailable")) /\ UNCHANGED loc
    /\ UNCHANGED <<repo, hist, runlog>>

\* config::set: validate key and value, ensure_initialized (initialize when
\* the metadata bookmark is missing, after which the process is back here with
\* the same key and value), then workspace_add on jjq/_/_ and
\* env::set_current_dir into it.
ConfigValidate(p) ==
    /\ pc[p] = "c_ws"
    /\ IF loc[p].key \notin VALID_KEYS
       THEN Return(p, Result("Err", "unknown config key")) /\ UNCHANGED loc
       ELSE IF loc[p].key = "strategy" /\ loc[p].val \notin Strategies
       THEN Return(p, Result("Err", "invalid value for strategy")) /\ UNCHANGED loc
       ELSE IF ~is_initialized
       THEN Goto(p, "i_create") /\ UNCHANGED <<lock, loc>>
       ELSE /\ Goto(p, "c_set")
            /\ loc' = [loc EXCEPT ![p].base = meta, ![p].cwd = "meta"]
            /\ UNCHANGED lock
    /\ UNCHANGED <<repo, hist, budget, runlog>>

\* config::set: write config/<key>, describe, bookmark set.
ConfigSet(p) ==
    /\ pc[p] = "c_set"
    /\ IF MetaSetOk(loc[p].base)
       THEN /\ meta' = MetaWithConfig(loc[p].base, loc[p].key, loc[p].val)
            /\ Goto(p, "c_ret")
            /\ UNCHANGED lock
       ELSE Return(p, Result("Err", "jj bookmark set failed")) /\ UNCHANGED meta
    /\ UNCHANGED <<trunk, queue, failed, headDesc, wsReg, wsDir, dups, hist, loc, budget, runlog>>

\* config::set: env::set_current_dir(orig_dir), forget the workspace;
\* commands::config returns and the config lock drops.
ConfigReturn(p) ==
    /\ pc[p] = "c_ret"
    /\ Set(p, "cwd", "orig")
    /\ Return(p, Result("Ok", "set"))
    /\ UNCHANGED <<repo, hist, budget, runlog>>

ConfigStep(p) ==
    \/ \E kv \in ConfigInputs : StartConfigSet(p, kv)
    \/ ConfigValidate(p) \/ ConfigSet(p) \/ ConfigReturn(p)

(* ----------------------------- sequence ids ---------------------------- *)
\* char::is_ascii_digit.
AsciiDigits == <<"0", "1", "2", "3", "4", "5", "6", "7", "8", "9">>
is_ascii_digit(c) == \E i \in 1..10 : AsciiDigits[i] = c
DigitValue(c) == (CHOOSE i \in 1..10 : AsciiDigits[i] = c) - 1

\* A u32 is kept as hi * Million + lo; u32::MAX is 4294 * Million + 967295.
Million == 1000000
U32_MAX_HI == 4294
U32_MAX_LO == 967295
U32(hi, lo) == [ok |-> TRUE, hi |-> hi, lo |-> lo]
PosOverflow == [ok |-> FALSE, hi |-> 0, lo |-> 0]

\* str::parse::<u32> on a string of ASCII digits: the digits are added one by
\* one, with an error when the value passes u32::MAX.
RECURSIVE ParseU32From(_, _, _)
ParseU32From(input, i, acc) ==
    IF i > Len(input) THEN acc
    ELSE LET lo10 == acc.lo * 10 + DigitValue(input[i])
             hi == acc.hi * 10 + lo10 \div Million
             lo == lo10 % Million
         IN IF hi > U32_MAX_HI \/ (hi = U32_MAX_HI /\ lo > U32_MAX_LO)
            THEN PosOverflow
            ELSE ParseU32From(input, i + 1, U32(hi, lo))

ParseU32(input) == ParseU32From(input, 1, U32(0, 0))

\* The result of parse_seq_id when it bails.
Bail == 0 - 1

\* A range test that lets zero pass.
InSeqRangeFromZero(v) == v.hi = 0 /\ v.lo \in 0..SEQ_MAX

\* (1..=999999).contains(&id).
InSeqRange(v) == v.hi = 0 /\ v.lo \in 1..SEQ_MAX

\* queue::parse_seq_id: the id, or Bail.
parse_seq_id(input) ==
    IF input = <<>> THEN Bail
    ELSE IF \E i \in 1..Len(input) : ~is_ascii_digit(input[i]) THEN Bail
    ELSE LET v == ParseU32(input)
         IN IF ~v.ok THEN Bail
            ELSE IF ~InSeqRange(v) THEN Bail
            ELSE v.lo

\* The decimal digits of n.
RECURSIVE Decimal(_)
Decimal(n) ==
    IF n < 10 THEN <<AsciiDigits[n + 1]>>
    ELSE Append(Decimal(n \div 10), AsciiDigits[(n % 10) + 1])

\* queue::format_seq_id: format!("{:06}", id), zeros in front up to six
\* characters.
format_seq_id(id) ==
    LET d == Decimal(id)
    IN IF Len(d) >= 6 THEN d ELSE [i \in 1..(6 - Len(d)) |-> "0"] \o d

\* A command parses the id string it was given.
ParseInput(p) ==
    /\ pc[p] = "idle"
    /\ loc[p].arg.kind = "str"
    /\ Set(p, "parsed", parse_seq_id(loc[p].arg.str))
    /\ pc' = [pc EXCEPT ![p] = "q_parsed"]
    /\ UNCHANGED <<repo, hist, lock, rc, budget, runlog>>

\* An id is formatted for a bookmark name.
FormatInput(p) ==
    /\ pc[p] = "idle"
    /\ loc[p].arg.kind = "num"
    /\ Set(p, "str", format_seq_id(loc[p].arg.num))
    /\ pc' = [pc EXCEPT ![p] = "q_formatted"]
    /\ UNCHANGED <<repo, hist, lock, rc, budget, runlog>>

\* The formatted id is parsed back.
ParseFormatted(p) ==
    /\ pc[p] = "q_formatted"
    /\ Set(p, "parsed", parse_seq_id(loc[p].str))
    /\ pc' = [pc EXCEPT ![p] = "q_parsed"]
    /\ UNCHANGED <<repo, hist, lock, rc, budget, runlog>>

(* ------------------------------ trailers ------------------------------- *)
\* A text is a sequence of pieces: "\n", " ", ": " and "jjq-" stand for
\* themselves, every other piece for a run of characters without them.
NL == "\n"
Strip(t, n) == SubSeq(t, n + 1, Len(t))

\* str::lines.
RECURSIVE Lines(_)
Lines(t) ==
    IF t = <<>> THEN <<>>
    ELSE IF \E i \in 1..Len(t) : t[i] = NL
         THEN LET i == CHOOSE k \in 1..Len(t) : t[k] = NL /\ \A j \in 1..(k - 1) : t[j] # NL
              IN <<SubSeq(t, 1, i - 1)>> \o Lines(Strip(t, i))
         ELSE <<t>>

\* str::trim.
RECURSIVE Trim(_)
Trim(t) ==
    IF t # <<>> /\ Head(t) = " " THEN Trim(Tail(t))
    ELSE IF t # <<>> /\ t[Len(t)] = " " THEN Trim(SubSeq(t, 1, Len(t) - 1))
    ELSE t

\* A split at the last ": " of the line.
SplitAtLast(t) == CHOOSE k \in 1..Len(t) : t[k] = ": " /\ \A j \in (k + 1)..Len(t) : t[j] # ": "

\* str::split_once(": "): the place of the first ": ".
SplitAt(t) == CHOOSE k \in 1..Len(t) : t[k] = ": " /\ \A j \in 1..(k - 1) : t[j] # ": "

\* commands::extract_trailers: the map from key to value of the lines
\* "jjq-key: value", a later line replacing an earlier one of the same key.
RECURSIVE TrailersOf(_, _)
TrailersOf(ls, map) ==
    IF ls = <<>> THEN map
    ELSE LET line == Head(ls)
             rest == Tail(line)
         IN IF line # <<>> /\ Head(line) = "jjq-" /\ \E k \in 1..Len(rest) : rest[k] = ": "
            THEN LET k == SplitAt(rest)
                     key == SubSeq(rest, 1, k - 1)
                     value == Trim(Strip(rest, k))
                 IN TrailersOf(Tail(ls), [x \in DOMAIN map \cup {key} |->
                                              IF x = key THEN value ELSE map[x]])
            ELSE TrailersOf(Tail(ls), map)

extract_trailers(description) == TrailersOf(Lines(description), <<>>)

\* commands::failure_description as text: the title, an empty line and the
\* six trailer lines.
FailureText(id, reason, change, commit, trunk_commit, path, strategy) ==
    <<"Failed: merge", " ", id, " ", "(", reason, ")", NL, NL>>
    \o <<"jjq-", "candidate", ": ">> \o change \o <<NL>>
    \o <<"jjq-", "candidate-commit", ": ">> \o commit \o <<NL>>
    \o <<"jjq-", "trunk", ": ">> \o trunk_commit \o <<NL>>
    \o <<"jjq-", "workspace", ": ">> \o path \o <<NL>>
    \o <<"jjq-", "failure", ": ", reason, NL>>
    \o <<"jjq-", "strategy", ": ", strategy>>

\* The arguments of failure_description in a run.
FailArg(reason, path, strategy) ==
    [kind |-> "fail", str |-> <<>>, num |-> 0,
     reason |-> reason, path |-> path, strategy |-> strategy]

\* run_one writes the description of the failed head.
DescribeFailure(p) ==
    /\ pc[p] = "idle"
    /\ loc[p].arg.kind = "fail"
    /\ Set(p, "str", FailureText("1", loc[p].arg.reason, <<"kxyz">>, <<"c0ffee">>, <<"7a11">>,
                                 loc[p].arg.path, loc[p].arg.strategy))
    /\ pc' = [pc EXCEPT ![p] = "t_desc"]
    /\ UNCHANGED <<repo, hist, lock, rc, budget, runlog>>

\* build_failed_item reads the description back.
ParseTrailers(p) ==
    /\ pc[p] = "t_desc"
    /\ Set(p, "parsed", extract_trailers(loc[p].str))
    /\ pc' = [pc EXCEPT ![p] = "t_parsed"]
    /\ UNCHANGED <<repo, hist, lock, rc, budget, runlog>>

(* ------------------------------- delete -------------------------------- *)
\* queue::queue_item_exists.
queue_item_exists(id) == queue[id] # NoCand

\* A lookup that never finds a failed bookmark.
failed_item_existsNever(id) == FALSE

\* queue::failed_item_exists.
failed_item_exists(id) == id \in failed

\* commands::delete: parse_seq_id, require_initialized.
StartDelete(p, n) ==
    /\ pc[p] = "idle"
    /\ Goto(p, "d_q")
    /\ loc' = [loc EXCEPT ![p].id = n, ![p].arg = [kind |-> "delete", str |-> <<>>, num |-> n]]
    /\ UNCHANGED <<repo, hist, lock, budget, runlog>>

\* commands::delete: queue_item_exists first.
DeleteLookupQueue(p) ==
    /\ pc[p] = "d_q"
    /\ Goto(p, IF queue_item_exists(loc[p].id) THEN "d_delq" ELSE "d_f")
    /\ UNCHANGED <<repo, hist, lock, loc, budget, runlog>>

\* A lookup that finds no workspace path.
lookup_workspace_pathNone(id) == FALSE

\* commands::lookup_workspace_path: workspace/N is read from jjq/_/_.
lookup_workspace_path(id) == id \in meta.ws

\* commands::delete: failed_item_exists, else not found; for a failed item
\* the workspace path is looked up before anything is deleted.
DeleteLookupFailed(p) ==
    /\ pc[p] = "d_f"
    /\ IF failed_item_exists(loc[p].id)
       THEN /\ Goto(p, "d_delf")
            /\ Set(p, "path", lookup_workspace_path(loc[p].id))
            /\ UNCHANGED lock
       ELSE Return(p, Result("Err", "item not found in queue or failed")) /\ UNCHANGED loc
    /\ UNCHANGED <<repo, hist, budget, runlog>>

\* jj::bookmark_delete(queue bookmark).
DeleteQueued(p) ==
    /\ pc[p] = "d_delq"
    /\ IF queue[loc[p].id] = NoCand
       THEN Return(p, Result("Err", "jj bookmark delete failed")) /\ UNCHANGED queue
       ELSE /\ queue' = [queue EXCEPT ![loc[p].id] = NoCand]
            /\ Return(p, Result("Ok", "deleted queued item"))
    /\ UNCHANGED <<trunk, failed, headDesc, meta, wsReg, wsDir, dups, hist, loc, budget, runlog>>

\* jj::bookmark_delete(failed bookmark).
DeleteFailed(p) ==
    /\ pc[p] = "d_delf"
    /\ IF loc[p].id \notin failed
       THEN Return(p, Result("Err", "jj bookmark delete failed")) /\ UNCHANGED failed
       ELSE /\ failed' = failed \ {loc[p].id}
            /\ Goto(p, "d_forget")
            /\ UNCHANGED lock
    /\ UNCHANGED <<trunk, queue, headDesc, meta, wsReg, wsDir, dups, hist, loc, budget, runlog>>

\* jj::workspace_forget(jjq-run-N), its result ignored; remove_dir_all of the
\* path looked up, if there was one.
DeleteForget(p) ==
    /\ pc[p] = "d_forget"
    /\ wsReg' = wsReg \ {loc[p].id}
    /\ wsDir' = IF loc[p].path THEN wsDir \ {loc[p].id} ELSE wsDir
    /\ Set(p, "seen", IF loc[p].id \in wsReg THEN "forgotten" ELSE "missing")
    /\ Return(p, Result("Ok", "deleted failed item"))
    /\ UNCHANGED <<trunk, queue, failed, headDesc, meta, dups, hist, budget, runlog>>

DeleteStep(p) ==
    \/ \E n \in Ids : StartDelete(p, n)
    \/ DeleteLookupQueue(p) \/ DeleteLookupFailed(p) \/ DeleteQueued(p)
    \/ DeleteFailed(p) \/ DeleteForget(p)

(* ------------------------------- status ------------------------------- *)
\* The ids of S in ascending and in descending order.
Ascending(S) ==
    CHOOSE s \in [1..Cardinality(S) -> S] : \A i, j \in DOMAIN s : i < j => s[i] < s[j]
Descending(S) ==
    CHOOSE s \in [1..Cardinality(S) -> S] : \A i, j \in DOMAIN s : i < j => s[i] > s[j]

\* queue::get_queue: the queue bookmarks, ids.sort().
get_queue == Ascending(QueueIds)

\* A listing of the failed entries in the order of the queue.
get_failedAscending == Ascending(failed)

\* queue::get_failed: the failed bookmarks, sorted descending.
get_failed == Descending(failed)

\* commands::status without id: config::is_initialized.
StartStatus(p) ==
    /\ pc[p] = "idle"
    /\ IF is_initialized
       THEN Goto(p, "st_probe") /\ UNCHANGED lock
       ELSE Return(p, Result("Ok", "jjq not initialized"))
    /\ UNCHANGED <<repo, hist, loc, budget, runlog>>

\* lock::lock_state("run"): File::open, try_lock_exclusive.  When the flock is
\* granted the state is Free and the prober holds the flock until it unlocks.
LockProbe(p) ==
    /\ pc[p] = "st_probe"
    /\ IF LockFree("run")
       THEN /\ lock' = [lock EXCEPT !["run"] = p]
            /\ Goto(p, "st_unlock")
            /\ Set(p, "running", FALSE)
       ELSE /\ Goto(p, "st_queue")
            /\ Set(p, "running", TRUE)
            /\ UNCHANGED lock
    /\ UNCHANGED <<repo, hist, budget, runlog>>

\* lock::lock_state: file.unlock().
LockProbeUnlock(p) ==
    /\ pc[p] = "st_unlock"
    /\ lock' = [lock EXCEPT !["run"] = None]
    /\ Goto(p, "st_queue")
    /\ UNCHANGED <<repo, hist, loc, budget, runlog>>

\* commands::status: queue::get_queue.
StatusGetQueue(p) ==
    /\ pc[p] = "st_queue"
    /\ Goto(p, "st_failed")
    /\ Set(p, "qlist", get_queue)
    /\ UNCHANGED <<repo, hist, lock, budget, runlog>>

\* commands::status: queue::get_failed.
StatusGetFailed(p) ==
    /\ pc[p] = "st_failed"
    /\ Goto(p, "st_build")
    /\ Set(p, "flist", get_failed)
    /\ UNCHANGED <<repo, hist, lock, budget, runlog>>

\* commands::status: build_queue_item of every id listed (resolve_revset_full
\* fails on a bookmark that is gone), build_failed_item of every failed id
\* listed (get_description of an empty revset is the empty text), and the
\* output.
StatusBuild(p) ==
    /\ pc[p] = "st_build"
    /\ IF \A i \in DOMAIN loc[p].qlist : queue[loc[p].qlist[i]] # NoCand
       THEN Return(p, Result("Ok", "status"))
       ELSE Return(p, Result("Err", "revset not found"))
    /\ UNCHANGED <<repo, hist, loc, budget, runlog>>

StatusStep(p) ==
    \/ StartStatus(p) \/ LockProbe(p) \/ LockProbeUnlock(p)
    \/ StatusGetQueue(p) \/ StatusGetFailed(p) \/ StatusBuild(p)

\* run_one around its call of run_check_command.
RunOneStep(p) ==
    \/ StartRun(p) \/ RunNextItem(p) \/ RunConfigLock(p) \/ RunReadConfig(p)
    \/ RunLock(p) \/ RunSnapshot(p) \/ RunResolveCandidate(p) \/ RunDuplicate(p)
    \/ RunWorkspaceAdd(p) \/ RunMetaWorkspace(p) \/ RunMetaSet(p) \/ RunEmptyCheck(p)
    \/ FailDeleteQueue(p) \/ FailCreateFailed(p) \/ FailDescribe(p)
    \/ SkipDeleteQueue(p) \/ SkipAbandon(p) \/ SkipForget(p) \/ RunVerifyTrunk(p)
    \/ MovedAbandon(p) \/ MovedForget(p) \/ LandRebase(p) \/ LandMoveTrunk(p)
    \/ LandDeleteQueue(p) \/ LandAbandon(p) \/ LandForget(p)

\* run_one, its check command taken as one step.
RunStep(p) == RunOneStep(p) \/ RunCheck(p)

(* -------------------------------- init --------------------------------- *)
\* The value of --strategy given to init.
InitStrategies == Strategies \cup {"squash"}

\* The keys init writes, in the order of its three config::set calls.
InitKeys == <<"trunk_bookmark", "check_command", "strategy">>

\* commands::init, with --trunk and --check given: refuse if already
\* initialised; the trunk bookmark exists.
StartInit(p, st) ==
    /\ pc[p] = "idle"
    /\ loc' = [loc EXCEPT ![p].arg = [kind |-> "init", str |-> <<>>, num |-> 0],
                          ![p].val = st, ![p].id = 1]
    /\ IF is_initialized
       THEN Return(p, Result("Usage", "jjq is already initialized"))
       ELSE Goto(p, "i_create") /\ UNCHANGED lock
    /\ UNCHANGED <<repo, hist, budget, runlog>>

\* config::initialize: jj new root(), jj bookmark create jjq/_/_; the new
\* commit holds no file yet.
InitializeCreate(p) ==
    /\ pc[p] = "i_create"
    /\ IF meta = NoMeta
       THEN /\ meta' = [NoMeta EXCEPT !.n = 0, !.last_id = 0 - 1]
            /\ Goto(p, "i_squash")
            /\ UNCHANGED lock
       ELSE Return(p, Result("Err", "jj bookmark create failed")) /\ UNCHANGED meta
    /\ UNCHANGED <<trunk, queue, failed, headDesc, wsReg, wsDir, dups, hist, loc, budget, runlog>>

\* config::initialize: workspace add on jjq/_/_, write last_id = 0, describe,
\* squash into the bookmarked commit, forget the workspace.
InitializeSquash(p) ==
    /\ pc[p] = "i_squash"
    /\ meta' = [meta EXCEPT !.last_id = 0]
    /\ Goto(p, IF loc[p].arg.kind = "init" THEN "i_ws" ELSE "c_ws")
    /\ UNCHANGED <<trunk, queue, failed, headDesc, wsReg, wsDir, dups, hist, lock, loc, budget, runlog>>

\* commands::init: Strategy::try_from(strategy) before the third config::set;
\* config::set: ensure_initialized and workspace_add on jjq/_/_.
InitConfigWorkspace(p) ==
    /\ pc[p] = "i_ws"
    /\ IF InitKeys[loc[p].id] = "strategy" /\ loc[p].val \notin Strategies
       THEN Return(p, Result("Usage", "invalid strategy")) /\ UNCHANGED loc
       ELSE /\ Goto(p, "i_set")
            /\ loc' = [loc EXCEPT ![p].base = meta, ![p].cwd = "meta"]
            /\ UNCHANGED lock
    /\ UNCHANGED <<repo, hist, budget, runlog>>

\* config::set: write config/<key>, describe, bookmark set,
\* env::set_current_dir(orig_dir); after the third key setup_log_filter and
\* doctor follow.
InitConfigSet(p) ==
    /\ pc[p] = "i_set"
    /\ IF MetaSetOk(loc[p].base)
       THEN /\ meta' = MetaWithConfig(loc[p].base, InitKeys[loc[p].id],
                           CASE InitKeys[loc[p].id] = "trunk_bookmark" -> "main"
                             [] InitKeys[loc[p].id] = "check_command" -> "true"
                             [] OTHER -> loc[p].val)
            /\ Goto(p, IF loc[p].id = Len(InitKeys) THEN "i_ret" ELSE "i_ws")
            /\ loc' = [loc EXCEPT ![p].id = IF @ = Len(InitKeys) THEN @ ELSE @ + 1,
                                  ![p].cwd = "orig"]
            /\ UNCHANGED lock
       ELSE Return(p, Result("Err", "jj bookmark set failed")) /\ UNCHANGED <<meta, loc>>
    /\ UNCHANGED <<trunk, queue, failed, headDesc, wsReg, wsDir, dups, hist, budget, runlog>>

\* commands::init: doctor passes and init returns.
InitReturn(p) ==
    /\ pc[p] = "i_ret"
    /\ Return(p, Result("Ok", "initialized"))
    /\ UNCHANGED <<repo, hist, loc, budget, runlog>>

InitStep(p) ==
    \/ \E st \in InitStrategies : StartInit(p, st)
    \/ InitializeCreate(p) \/ InitializeSquash(p) \/ InitConfigWorkspace(p)
    \/ InitConfigSet(p) \/ InitReturn(p)

(* ------------------------- specifications ------------------------------ *)
MetaInit(s) == [n |-> 0, last_id |-> MaxId, ws |-> {}, strategy |-> s, check |-> "true",
                trunk_bookmark |-> "main"]

\* The repository after init and MaxId pushes of distinct changes.
Init ==
    /\ trunk = <<>>
    /\ queue = [n \in Ids |-> Candidate(ChangeOf(n))]
    /\ failed = {}
    /\ headDesc = [n \in Ids |-> NoDesc]
    /\ \E s \in Strategies : meta = MetaInit(s)
    /\ wsReg = {}
    /\ wsDir = {}
    /\ dups = {}
    /\ lock = [n \in LockNames |-> None]
    /\ pc = [p \in Procs |-> "idle"]
    /\ loc = [p \in Procs |-> LocInit]
    /\ rc = [p \in Procs |-> NoResult]
    /\ landLog = {}
    /\ allocLog = [i \in 1..MaxId |-> [id |-> i, prev |-> i - 1]]
    /\ pushLog = <<>>
    /\ budget = [ext |-> MaxExt, crash |-> MaxCrash, cfg |-> MaxCfg]
    /\ runlog = <<>>

\* Runs by two processes while trunk may be advanced from outside.
Next ==
    \/ \E p \in Procs : RunStep(p) \/ Exit(p)
    \/ ExtAdvanceTrunk

Spec == Init /\ [][Next]_vars

\* One process running the queue again and again, dying at any step.
NextCrash ==
    \/ RunStep("p1")
    \/ Exit("p1")
    \/ Crash("p1")
    \/ ExtAdvanceTrunk

SpecCrash == Init /\ [][NextCrash]_vars

\* The repository after init and MaxId pushes, check_command set or not.
InitAll ==
    /\ trunk = <<>>
    /\ queue = [n \in Ids |-> Candidate(ChangeOf(n))]
    /\ failed = {}
    /\ headDesc = [n \in Ids |-> NoDesc]
    /\ \E s \in Strategies, c \in {"true", None} : meta = [MetaInit(s) EXCEPT !.check = c]
    /\ wsReg = {}
    /\ wsDir = {}
    /\ dups = {}
    /\ lock = [n \in LockNames |-> None]
    /\ pc = [p \in Procs |-> "idle"]
    /\ loc = [p \in Procs |-> LocInit]
    /\ rc = [p \in Procs |-> NoResult]
    /\ landLog = {}
    /\ allocLog = [i \in 1..MaxId |-> [id |-> i, prev |-> i - 1]]
    /\ pushLog = <<>>
    /\ budget = [ext |-> MaxExt, crash |-> 0, cfg |-> 0]
    /\ runlog = <<>>

\* "jjq run --all" in p1 beside single runs in p2, trunk advanced from outside.
NextAll ==
    \/ RunAllStep("p1")
    \/ \E p \in Procs : RunStep(p) \/ Exit(p)
    \/ ExtAdvanceTrunk

SpecAll == InitAll /\ [][NextAll]_vars

\* The same, every process and every check command going on to its next step.
SpecAllLive ==
    /\ SpecAll
    /\ \A p \in Procs : WF_vars(RunAllStep(p) \/ RunStep(p) \/ Exit(p))

\* "jjq run" and "jjq run --all" in p1 beside "jjq check" in p2, the check
\* command and the run log followed step by step.
NextLog ==
    \/ RunOneStep("p1") \/ RunAllStep("p1")
    \/ CheckStep("p2")
    \/ \E p \in Procs : RunCheckStep(p) \/ Exit(p)
    \/ ExtAdvanceTrunk

SpecLog == Init /\ [][NextLog]_vars

\* Characters of the id strings tried, and longer strings: with a sign, with
\* a blank, the digit U+0663 that is not ASCII, and ten digits around u32::MAX.
InputChars == {"0", "1", "9", "x"}
SeqsUpTo(n) == UNION {[1..k -> InputChars] : k \in 0..n}
LongInputs ==
    {<<"+", "1">>, <<"-", "1">>, <<" ", "1">>, <<"1", " ">>, <<"U+0663">>,
     <<"0", "0", "0", "0", "0", "0", "0", "0", "0", "1">>,
     <<"1", "0", "0", "0", "0", "0", "0", "0", "0", "0">>,
     <<"4", "2", "9", "4", "9", "6", "7", "2", "9", "5">>,
     <<"4", "2", "9", "4", "9", "6", "7", "2", "9", "6">>,
     <<"9", "9", "9", "9", "9", "9", "9", "9", "9", "9">>}
IdSamples == (0..MaxSample) \cup {99999, 100000, 999998, SEQ_MAX, SEQ_MAX + 1}

\* The repository after init; p1 is given an id string or an id.
InitSeqId ==
    /\ trunk = <<>>
    /\ queue = [n \in Ids |-> NoCand]
    /\ failed = {}
    /\ headDesc = [n \in Ids |-> NoDesc]
    /\ meta = [MetaInit("merge") EXCEPT !.last_id = 0]
    /\ wsReg = {}
    /\ wsDir = {}
    /\ dups = {}
    /\ lock = [n \in LockNames |-> None]
    /\ pc = [p \in Procs |-> "idle"]
    /\ \E a \in {StrArg(s) : s \in SeqsUpTo(MaxLen) \cup LongInputs}
                    \cup {NumArg(n) : n \in IdSamples} :
          loc = [p \in Procs |-> IF p = "p1" THEN [LocInit EXCEPT !.arg = a] ELSE LocInit]
    /\ rc = [p \in Procs |-> NoResult]
    /\ landLog = {}
    /\ allocLog = <<>>
    /\ pushLog = <<>>
    /\ budget = [ext |-> 0, crash |-> 0, cfg |-> 0]
    /\ runlog = <<>>

NextSeqId == ParseInput("p1") \/ FormatInput("p1") \/ ParseFormatted("p1")

SpecSeqId == InitSeqId /\ [][NextSeqId]_vars

\* Paths of a workspace directory: absolute, the last component the random
\* name TempDir gives it; the directories above may hold blanks, ": " or "jjq-".
PathPieces == {"tmp/", " ", ": ", "jjq-"}
WorkspacePaths ==
    {<<"/">> \o m \o <<".tmpAbC123">> : m \in UNION {[1..k -> PathPieces] : k \in 0..MaxPath}}

\* The repository after init; p1 is about to record a failure.
InitTrailers ==
    /\ trunk = <<>>
    /\ queue = [n \in Ids |-> NoCand]
    /\ failed = {}
    /\ headDesc = [n \in Ids |-> NoDesc]
    /\ meta = [MetaInit("merge") EXCEPT !.last_id = 0]
    /\ wsReg = {}
    /\ wsDir = {}
    /\ dups = {}
    /\ lock = [n \in LockNames |-> None]
    /\ pc = [p \in Procs |-> "idle"]
    /\ \E r \in {"conflicts", "check"}, w \in WorkspacePaths, st \in Strategies :
          loc = [p \in Procs |-> IF p = "p1" THEN [LocInit EXCEPT !.arg = FailArg(r, w, st)]
                                             ELSE LocInit]
    /\ rc = [p \in Procs |-> NoResult]
    /\ landLog = {}
    /\ allocLog = <<>>
    /\ pushLog = <<>>
    /\ budget = [ext |-> 0, crash |-> 0, cfg |-> 0]
    /\ runlog = <<>>

NextTrailers == DescribeFailure("p1") \/ ParseTrailers("p1")

SpecTrailers == InitTrailers /\ [][NextTrailers]_vars

\* A repository before init, or after init with one entry queued and one
\* failed.
InitInit ==
    /\ trunk = <<>>
    /\ \E s \in Strategies \cup {None} :
         IF s = None
         THEN /\ meta = NoMeta
              /\ queue = [n \in Ids |-> NoCand]
              /\ failed = {}
              /\ headDesc = [n \in Ids |-> NoDesc]
              /\ wsReg = {}
              /\ wsDir = {}
              /\ allocLog = <<>>
         ELSE /\ meta = [MetaInit(s) EXCEPT !.n = 3, !.ws = {2}]
              /\ queue = [n \in Ids |-> IF n = 1 THEN Candidate(ChangeOf(1)) ELSE NoCand]
              /\ failed = {2}
              /\ headDesc = [n \in Ids |-> IF n = 2
                    THEN failure_description(2, "check", Candidate(ChangeOf(2)), <<>>, s)
                    ELSE NoDesc]
              /\ wsReg = {2}
              /\ wsDir = {2}
              /\ allocLog = [i \in 1..MaxId |-> [id |-> i, prev |-> i - 1]]
    /\ dups = {}
    /\ lock = [n \in LockNames |-> None]
    /\ pc = [p \in Procs |-> "idle"]
    /\ loc = [p \in Procs |-> LocInit]
    /\ rc = [p \in Procs |-> NoResult]
    /\ landLog = {}
    /\ pushLog = <<>>
    /\ budget = [ext |-> MaxExt, crash |-> MaxCrash, cfg |-> MaxCfg]
    /\ runlog = <<>>

\* init and config writes by two processes.
NextInit == \E p \in Procs : InitStep(p) \/ ConfigStep(p) \/ Exit(p)

SpecInit == InitInit /\ [][NextInit]_vars

\* A run beside a process that deletes entries, while trunk may be advanced
\* from outside.
NextDelete ==
    \/ \E p \in Procs : Exit(p)
    \/ RunStep("p1")
    \/ DeleteStep("p2")
    \/ ExtAdvanceTrunk

SpecDelete == Init /\ [][NextDelete]_vars

\* Entry 1 queued and entry 2 failed by an earlier run, whose workspace is
\* still there or was removed by "jjq clean" (commands::clean forgets every
\* jjq workspace and removes the directory recorded for it).
InitFailed ==
    /\ trunk = <<>>
    /\ queue = [n \in Ids |-> IF n = 1 THEN Candidate(ChangeOf(1)) ELSE NoCand]
    /\ failed = {2}
    /\ \E s \in Strategies :
         /\ meta = [MetaInit(s) EXCEPT !.n = 1, !.ws = {2}]
         /\ headDesc = [n \in Ids |->
                IF n = 2 THEN failure_description(2, "check", Candidate(ChangeOf(2)), <<>>, s)
                ELSE NoDesc]
    /\ \E cleaned \in BOOLEAN :
         /\ wsReg = IF cleaned THEN {} ELSE {2}
         /\ wsDir = IF cleaned THEN {} ELSE {2}
    /\ dups = {}
    /\ lock = [n \in LockNames |-> None]
    /\ pc = [p \in Procs |-> "idle"]
    /\ loc = [p \in Procs |-> LocInit]
    /\ rc = [p \in Procs |-> NoResult]
    /\ landLog = {}
    /\ allocLog = [i \in 1..MaxId |-> [id |-> i, prev |-> i - 1]]
    /\ pushLog = <<>>
    /\ budget = [ext |-> MaxExt, crash |-> MaxCrash, cfg |-> MaxCfg]
    /\ runlog = <<>>

\* A run beside a process that deletes entries, one entry having failed before.
SpecFailed == InitFailed /\ [][NextDelete]_vars

\* Runs in p1 beside "jjq status" in p2, while trunk may be advanced from
\* outside.
NextStatus ==
    \/ \E p \in Procs : Exit(p)
    \/ RunStep("p1")
    \/ StatusStep("p2")
    \/ ExtAdvanceTrunk

SpecStatus == Init /\ [][NextStatus]_vars

\* The repository after init, nothing pushed yet.
InitPush ==
    /\ trunk = <<>>
    /\ queue = [n \in Ids |-> NoCand]
    /\ failed = {}
    /\ headDesc = [n \in Ids |-> NoDesc]
    /\ meta = [MetaInit("merge") EXCEPT !.last_id = 0]
    /\ wsReg = {}
    /\ wsDir = {}
    /\ dups = {}
    /\ lock = [n \in LockNames |-> None]
    /\ pc = [p \in Procs |-> "idle"]
    /\ loc = [p \in Procs |-> LocInit]
    /\ rc = [p \in Procs |-> NoResult]
    /\ landLog = {}
    /\ allocLog = <<>>
    /\ pushLog = <<>>
    /\ budget = [ext |-> MaxExt, crash |-> MaxCrash, cfg |-> MaxCfg]
    /\ runlog = <<>>

\* Concurrent pushes and config writes.
NextIds == \E p \in Procs : PushStep(p) \/ ConfigStep(p) \/ Exit(p)

SpecIds == InitPush /\ [][NextIds]_vars

\* The writers of the queue and of the metadata bookmark: a runner beside a
\* process that pushes and writes config, while trunk may be advanced from
\* outside.
NextPush ==
    \/ \E p \in Procs : Exit(p)
    \/ RunStep("p1")
    \/ PushStep("p2")
    \/ ConfigStep("p2")
    \/ ExtAdvanceTrunk

SpecPush == InitPush /\ [][NextPush]_vars

\* One queued item and two run invocations, each started once.
InitRace ==
    /\ trunk = <<>>
    /\ queue = [n \in Ids |-> IF n = 1 THEN Candidate(ChangeOf(1)) ELSE NoCand]
    /\ failed = {}
    /\ headDesc = [n \in Ids |-> NoDesc]
    /\ \E s \in Strategies :
         meta = [MetaInit(s) EXCEPT !.last_id = 1]
    /\ wsReg = {}
    /\ wsDir = {}
    /\ dups = {}
    /\ lock = [n \in LockNames |-> None]
    /\ pc = [p \in Procs |-> "idle"]
    /\ loc = [p \in Procs |-> LocInit]
    /\ rc = [p \in Procs |-> NoResult]
    /\ landLog = {}
    /\ allocLog = <<[id |-> 1, prev |-> 0]>>
    /\ pushLog = <<>>
    /\ budget = [ext |-> MaxExt, crash |-> MaxCrash, cfg |-> MaxCfg]
    /\ runlog = <<>>

NextRace ==
    \/ \E p \in Procs : RunStep(p)
    \/ ExtAdvanceTrunk

SpecRace == InitRace /\ [][NextRace]_vars

\* The three locks in use: a run, which takes the config lock and the run
\* lock, beside a push, which takes the id lock; either process may die at any
\* step, while trunk may be advanced from outside.
NextLocks ==
    \/ \E p \in Procs : Exit(p) \/ Crash(p)
    \/ RunStep("p1")
    \/ PushStep("p2")
    \/ ExtAdvanceTrunk

SpecLocks == InitRace /\ [][NextLocks]_vars

\* The last MaxId sequence ids.
TopIds == (SEQ_MAX - MaxId + 1)..SEQ_MAX

\* A repository whose last_id is within MaxId of SEQ_MAX, its queue empty.
InitExhaust ==
    /\ trunk = <<>>
    /\ queue = [n \in TopIds |-> NoCand]
    /\ failed = {}
    /\ headDesc = [n \in TopIds |-> NoDesc]
    /\ \E n \in TopIds \cup {SEQ_MAX - MaxId} : meta = [MetaInit("merge") EXCEPT !.last_id = n]
    /\ wsReg = {}
    /\ wsDir = {}
    /\ dups = {}
    /\ lock = [n \in LockNames |-> None]
    /\ pc = [p \in Procs |-> "idle"]
    /\ loc = [p \in Procs |-> LocInit]
    /\ rc = [p \in Procs |-> NoResult]
    /\ landLog = {}
    /\ allocLog = <<>>
    /\ pushLog = <<>>
    /\ budget = [ext |-> MaxExt, crash |-> MaxCrash, cfg |-> MaxCfg]
    /\ runlog = <<>>

\* Concurrent pushes up to and past the last sequence id.
NextExhaust == \E p \in Procs : PushStep(p) \/ Exit(p)

SpecExhaust == InitExhaust /\ [][NextExhaust]_vars

\* The repository after init and MaxId pushes, check_command set or not, the
\* run log empty or left by an earlier run.
InitEarly ==
    /\ trunk = <<>>
    /\ queue = [n \in Ids |-> Candidate(ChangeOf(n))]
    /\ failed = {}
    /\ headDesc = [n \in Ids |-> NoDesc]
    /\ \E s \in Strategies, c \in {"true", None} : meta = [MetaInit(s) EXCEPT !.check = c]
    /\ wsReg = {}
    /\ wsDir = {}
    /\ dups = {}
    /\ lock = [n \in LockNames |-> None]
    /\ pc = [p \in Procs |-> "idle"]
    /\ loc = [p \in Procs |-> LocInit]
    /\ rc = [p \in Procs |-> NoResult]
    /\ landLog = {}
    /\ allocLog = [i \in 1..MaxId |-> [id |-> i, prev |-> i - 1]]
    /\ pushLog = <<>>
    /\ budget = [ext |-> MaxExt, crash |-> MaxCrash, cfg |-> MaxCfg]
    /\ runlog \in {<<>>, <<OutLine("p2"), sentinel_line("p2", 0)>>}

SpecEarly == InitEarly /\ [][Next]_vars

(* ------------------------------ properties ----------------------------- *)
\* Positions of a run that has taken the run lock and not yet returned.
RunLocked == {"r_snap", "r_cand", "r_dup", "r_wsadd", "r_meta", "r_metaset", "r_empty",
              "r_check", "r_verify", "l_rebase", "l_move", "l_delq", "l_abandon",
              "l_forget", "f_del", "f_create", "f_desc", "s_del", "s_abandon",
              "s_forget", "t_abandon", "t_forget"}
\* Positions of a run between its choice of a queue entry and the run lock.
RunSelected == {"r_cfglock", "r_cfgread", "r_lock"}

Landed(n) == \E r \in landLog : r.id = n
AllDone == \A p \in Procs : pc[p] = "done"
LockUnavailable == Result("Failure", "run lock unavailable")

\* C1: every trunk move of a run lands an item whose check exited 0, on a
\* head built on the commit trunk was at when the run snapshotted it and is
\* at when it moves, and that head was neither conflicted nor empty.
C1_LandsOnlyCheckedOnCurrentTrunk ==
    \A r \in landLog :
        /\ r.chk = "pass"
        /\ r.at = r.snap
        /\ r.wsBase = r.at
        /\ ~has_conflicts(r.at, r.change)
        /\ ~trees_match(r.at, r.wsBase, r.change)

\* A run landed an item on a trunk that had been advanced from outside.
C1_Witness == \E r \in landLog : r.at # <<>> /\ r.chk = "pass"

\* C2 (as stated): when two run invocations on a one-item queue have both
\* returned, one of them returned "run lock unavailable" and the other
\* processed the item.
C2_ExactlyOneLockUnavailable ==
    (AllDone /\ budget.ext = MaxExt) =>
        \E p \in Procs : \E q \in Procs \ {p} :
            /\ rc[p] = LockUnavailable
            /\ rc[q].kind \in {"Success", "Skipped", "Failure"}
            /\ rc[q] # LockUnavailable

\* The results of an invocation that did not get to process the item.
RaceLost == {LockUnavailable, Result("Empty", ""),
             Result("Err", "config lock unavailable"), Result("Err", "revset not found")}

\* The repository after a run alone has processed the one queued item.
SerialOutcome(r) ==
    IF r = Result("Success", "")
    THEN /\ trunk = <<LandCommit(ChangeOf(1))>>
         /\ queue[1] = NoCand /\ failed = {} /\ wsReg = {} /\ dups = {}
    ELSE /\ r = Result("Failure", "merge check failed")
         /\ trunk = <<>>
         /\ queue[1] = NoCand /\ failed = {1} /\ wsReg = {1}
         /\ headDesc[1].kind = "failed"

\* C2 (amended): two run invocations never hold the run lock together; and
\* when both have returned and nothing else moved trunk, exactly one of them
\* processed the item, the other returned "run lock unavailable", Empty or
\* an error without changing anything, and the repository is as the winner
\* alone leaves it.
C2_OneWinnerSerialOutcome ==
    /\ \A p \in Procs : pc[p] \in RunLocked => lock["run"] = p
    /\ \A p \in Procs : \A q \in Procs \ {p} : ~(pc[p] \in RunLocked /\ pc[q] \in RunLocked)
    /\ (AllDone /\ budget.ext = MaxExt) =>
         \E p \in Procs : \E q \in Procs \ {p} :
             /\ rc[q] \in RaceLost
             /\ rc[p] \notin RaceLost
             /\ SerialOutcome(rc[p])

\* Both invocations returned, one with "run lock unavailable".
C2_Witness ==
    /\ AllDone /\ budget.ext = MaxExt
    /\ \E p \in Procs : rc[p] = LockUnavailable
    /\ \E p \in Procs : rc[p] = Result("Success", "")

\* C3 (as stated): from the choice of the queue entry (next_item) until the
\* run returns, the process holds the run lock.
C3_SelectionUnderRunLock ==
    \A p \in Procs : pc[p] \in RunSelected \cup RunLocked => lock["run"] = p

\* C4 (as stated): the ids pushes return are strictly increasing in the
\* order the pushes complete.
C4_IncreasingInCompletionOrder ==
    \A i \in 1..Len(pushLog) : \A j \in 1..Len(pushLog) :
        i < j => pushLog[i] < pushLog[j]

\* C4 (amended): the ids are strictly increasing in the order next_id
\* commits them, each is one more than the last_id stored just before, and
\* no id is returned by two pushes.
C4_IncreasingInAllocationOrder ==
    /\ \A i \in 1..Len(allocLog) : allocLog[i].id = allocLog[i].prev + 1
    /\ \A i \in 1..Len(allocLog) : \A j \in 1..Len(allocLog) :
           i < j => allocLog[i].id < allocLog[j].id
    /\ \A i \in 1..Len(pushLog) : \A j \in 1..Len(pushLog) :
           i # j => pushLog[i] # pushLog[j]
    /\ \A i \in 1..Len(pushLog) : \E j \in 1..Len(allocLog) : allocLog[j].id = pushLog[i]

\* Two pushes completed in the reverse of the order their ids were allocated.
C4_Witness == Len(pushLog) >= 2 /\ pushLog[1] > pushLog[2]

\* C5: the last_id stored on the metadata bookmark is the largest id
\* next_id ever committed (so it never decreases), whatever config writes
\* and workspace records interleave with the allocations.
C5_LastIdIsMaxAllocated ==
    meta.last_id = Max({allocLog[i].id : i \in 1..Len(allocLog)})

\* An id was allocated, a workspace recorded and the config rewritten, and a
\* concurrent metadata write was refused.
C5_Witness ==
    /\ meta.last_id >= 1
    /\ meta.ws # {}
    /\ \E p \in Procs : pc[p] = "done" /\ rc[p] = Result("Err", "jj bookmark set failed")

\* C6: no id has both its queue bookmark and its failed bookmark.
C6_QueueFailedDisjoint == \A n \in Ids : ~(queue[n] # NoCand /\ n \in failed)

\* A failed entry beside a queued one.
C6_Witness == failed # {} /\ QueueIds # {}

\* A step of the run in slot p.
StepOfRun(p) == pc[p] \notin {"idle", "done"} /\ pc'[p] # pc[p]

C8_LeftoverIsSkipped ==
    \A p \in Procs :
        (/\ pc[p] = "done"
         /\ loc[p].cand # NoCand
         /\ IsAncestor(loc[p].cand.change, loc[p].snap)) =>
            /\ rc[p].kind = "Skipped"
            /\ queue[loc[p].id] = NoCand

\* C9: on the success path trunk is moved before the queue bookmark is
\* deleted, and the failed bookmark of a landed entry is never created.
C9_TrunkMovesBeforeQueueDelete ==
    /\ \A p \in Procs :
          /\ pc[p] \in {"l_rebase", "l_move"} => ~Landed(loc[p].id) /\ queue[loc[p].id] # NoCand
          /\ pc[p] = "l_delq" => Landed(loc[p].id) /\ queue[loc[p].id] # NoCand
          /\ (pc[p] \in {"l_abandon", "l_forget"} \/ (pc[p] = "done" /\ rc[p].kind = "Success"))
                => Landed(loc[p].id) /\ queue[loc[p].id] = NoCand
    /\ \A n \in Ids : Landed(n) => n \notin failed

\* A run has moved trunk and not yet deleted the queue bookmark.
C9_Witness == \E p \in Procs : pc[p] = "l_delq" /\ Landed(loc[p].id)

\* C10 (as stated): while a run marks an entry failed, the entry always has
\* its queue bookmark or its failed bookmark, and a failed bookmark always
\* points at a commit that carries the failure trailers.
C10_MarkFailedAtomic ==
    \A p \in Procs :
        pc[p] \in {"f_del", "f_create", "f_desc"} =>
            /\ queue[loc[p].id] # NoCand \/ loc[p].id \in failed
            /\ loc[p].id \in failed => headDesc[loc[p].id].kind = "failed"

(* ------------------------- claims about push ---------------------------- *)
\* The push of p returned with an error.
PushFailed(p) ==
    /\ pc[p] = "done"
    /\ loc[p].cand # NoCand
    /\ loc[p].strat = None
    /\ rc[p].kind \in {"Usage", "Failure", "Err"}

\* C11 (as stated): a push rejected with "revision already queued" has
\* allocated no sequence id and has deleted no queue and no failed bookmark.
C11_AlreadyQueuedChangesNothing ==
    \A p \in Procs :
        (pc[p] = "done" /\ rc[p] = Result("Usage", "revision already queued")) =>
            /\ loc[p].id = 0
            /\ loc[p].dq = {}
            /\ loc[p].df = {}

\* C12 (as stated): at the moment a push creates its queue bookmark, that
\* bookmark is the only queue entry of the pushed change, and no failed
\* bookmark carries the change in its jjq-candidate trailer.
C12_OneEntryPerChangeAfterPush ==
    [][\A p \in Procs :
          (pc[p] = "p_create" /\ pc'[p] = "p_done") =>
              /\ {n \in Ids : queue'[n] # NoCand /\ queue'[n].change = loc[p].cand.change}
                    = {loc[p].id}
              /\ queue'[loc[p].id] = loc[p].cand
              /\ \A n \in failed' : TrailerCandidate(headDesc'[n]) # loc[p].cand.change]_vars

\* C13 (as stated): a push that returned an error has deleted no queue and
\* no failed bookmark.
C13_FailedPushChangesNothing ==
    \A p \in Procs : PushFailed(p) => loc[p].dq = {} /\ loc[p].df = {}

(* ------------------------ claims about run --all ------------------------ *)
\* run_all of p has ended.
RunAllEnded(p) == pc[p] = "done" /\ loc[p].ended

C15_RunAllTerminates ==
    (loc["p1"].all /\ ~loc["p1"].stop) ~> ~loc["p1"].all

StepOf(p) == pc'[p] # pc[p] \/ loc'[p] # loc[p] \/ rc'[p] # rc[p]

\* C17: under --stop-on-failure the first Failure of run_one ends the loop:
\* the next step of the command returns with exit code 1 and changes nothing
\* in the repository, no earlier call had failed, and the command has
\* selected no entry with a higher id than the failing one.
C17_StopOnFirstFailure ==
    [][\A p \in Procs :
          (/\ pc[p] = "done" /\ loc[p].all /\ loc[p].stop
           /\ rc[p].kind = "Failure"
           /\ StepOf(p)) =>
              /\ RunAllEnded(p)'
              /\ ExitCode(rc'[p]) = 1
              /\ UNCHANGED repo
              /\ loc'[p].nfail = 0
              /\ \A n \in loc'[p].picked : n <= loc[p].id]_vars

\* "run --all --stop-on-failure" has ended at the first entry, marked
\* failed, with the second entry still queued.
C17_Witness ==
    /\ RunAllEnded("p1") /\ loc["p1"].stop
    /\ ExitCode(rc["p1"]) = 1
    /\ loc["p1"].id = 1 /\ 1 \in failed
    /\ loc["p1"].picked = {1}
    /\ queue[2] # NoCand

(* ------------------------ claims about the run log ---------------------- *)
\* Processes whose check command is executing, and processes that write the
\* run log.
Children == {p \in Procs : pc[p] = "k_run" /\ loc[p].child = "running"}
LogWriters == {p \in Procs : pc[p] = "k_run"}

\* C18 (as stated): at most one check command executes at a time, and the
\* run log has at most one writer.
C18_OneCheckOneWriter ==
    /\ Cardinality(Children) <= 1
    /\ Cardinality(LogWriters) <= 1

\* C19 (as stated): when run_check_command has written its sentinel, the run
\* log holds the lines its check command printed, all of them, and after
\* them the one sentinel line with its exit code.
C19_LogIsOutputThenSentinel ==
    [][\A p \in Procs :
          (pc[p] = "k_run" /\ pc'[p] = "k_ret") =>
              /\ Len(runlog') = loc[p].emit + 1
              /\ \A i \in 1..loc[p].emit : runlog'[i] = OutLine(p)
              /\ runlog'[Len(runlog')] = sentinel_line(p, loc[p].code)]_vars

(* ---------------------- claims about sequence ids ----------------------- *)
\* An id string without its leading zeros.
RECURSIVE StripZeros(_)
StripZeros(s) == IF s # <<>> /\ Head(s) = "0" THEN StripZeros(Tail(s)) ELSE s

\* The number a string of at most six ASCII digits writes.
RECURSIVE Value(_)
Value(s) == IF s = <<>> THEN 0 ELSE Value(SubSeq(s, 1, Len(s) - 1)) * 10 + DigitValue(s[Len(s)])

\* The string is made of ASCII digits and writes a number in 1..999999.
WellFormed(s) ==
    /\ s # <<>>
    /\ \A i \in 1..Len(s) : s[i] \in {"0", "1", "2", "3", "4", "5", "6", "7", "8", "9"}
    /\ Len(StripZeros(s)) \in 1..6

\* C20: parse_seq_id accepts exactly the strings of ASCII digits that write a
\* number in 1..999999, leading zeros or not, and returns that number; and
\* parse_seq_id of format_seq_id of an id in 1..999999 is the id, written in
\* six characters.
C20_ParseSeqId ==
    \A p \in Procs :
        pc[p] = "q_parsed" =>
            /\ loc[p].arg.kind = "str" =>
                  IF WellFormed(loc[p].arg.str)
                  THEN loc[p].parsed = Value(StripZeros(loc[p].arg.str))
                  ELSE loc[p].parsed = Bail
            /\ (loc[p].arg.kind = "num" /\ loc[p].arg.num \in 1..SEQ_MAX) =>
                  /\ loc[p].parsed = loc[p].arg.num
                  /\ Len(loc[p].str) = 6
            /\ (loc[p].arg.kind = "num" /\ loc[p].arg.num \notin 1..SEQ_MAX) =>
                  loc[p].parsed = Bail

\* A zero-padded string of seven characters was parsed to the id 1.
C20_Witness ==
    /\ pc["p1"] = "q_parsed"
    /\ loc["p1"].arg = StrArg(<<"0", "0", "0", "0", "0", "0", "1">>)
    /\ loc["p1"].parsed = 1

(* ------------------------ claims about trailers ------------------------- *)
\* C21: the trailers parsed from the description of a recorded failure are
\* the six fields candidate, candidate-commit, trunk, workspace, failure and
\* strategy and no other, each with the value that was written.
C21_TrailersRoundTrip ==
    \A p \in Procs :
        pc[p] = "t_parsed" =>
            LET t == loc[p].parsed
                a == loc[p].arg
            IN /\ DOMAIN t = {<<"candidate">>, <<"candidate-commit">>, <<"trunk">>,
                              <<"workspace">>, <<"failure">>, <<"strategy">>}
               /\ t[<<"candidate">>] = <<"kxyz">>
               /\ t[<<"candidate-commit">>] = <<"c0ffee">>
               /\ t[<<"trunk">>] = <<"7a11">>
               /\ t[<<"workspace">>] = a.path
               /\ t[<<"failure">>] = <<a.reason>>
               /\ t[<<"strategy">>] = <<a.strategy>>

\* The failure of a check under rebase, the workspace path holding ": " and
\* a blank, was written and read back.
C21_Witness ==
    /\ pc["p1"] = "t_parsed"
    /\ loc["p1"].arg = FailArg("check", <<"/", "tmp/", ": ", " ", ".tmpAbC123">>, "rebase")
    /\ loc["p1"].parsed[<<"workspace">>] = <<"/", "tmp/", ": ", " ", ".tmpAbC123">>

(* ------------------------------ exit codes ----------------------------- *)
\* The messages of the errors the specification classes as usage errors, and
\* of the three lock failures.
UsageMessages == {"unknown config key", "jjq is already initialized"}
LockMessages == {"run lock unavailable", "could not acquire sequence ID lock",
                 "config lock unavailable"}

\* C22: every invocation that has returned exits with a code in {0, 1, 2, 10};
\* an unknown config key exits 10 (usage), and a held run, id or config lock
\* exits 1.
C22_ExitCodeByClass ==
    \A p \in Procs :
        rc[p] # NoResult =>
            /\ ExitCode(rc[p]) \in {0, 1, 2, 10}
            /\ rc[p].msg \in UsageMessages => ExitCode(rc[p]) = 10
            /\ rc[p].msg \in LockMessages => ExitCode(rc[p]) = 1

\* C23: an init started while the metadata bookmark exists returns a usage
\* error in that step and leaves last_id, every config value and every queue
\* and failed bookmark as they were.
C23_InitOnInitialisedChangesNothing ==
    [][\A p \in Procs :
         (pc[p] = "idle" /\ loc'[p].arg.kind = "init" /\ meta # NoMeta) =>
            /\ pc'[p] = "done"
            /\ rc'[p] = Result("Usage", "jjq is already initialized")
            /\ repo' = repo]_vars

\* An init refused on the repository that holds a queued and a failed entry.
C23_Witness ==
    \E p \in Procs :
        /\ pc[p] = "done"
        /\ loc[p].arg.kind = "init"
        /\ rc[p] = Result("Usage", "jjq is already initialized")
        /\ queue[1] # NoCand /\ 2 \in failed /\ meta.last_id = MaxId

\* C24: a config write whose key is outside {trunk_bookmark, check_command,
\* strategy}, or whose strategy value is outside {merge, rebase}, ends with an
\* error at its validation and never changes the metadata branch: no commit is
\* added, a missing branch stays missing, and every valid key reads as before.
C24_InvalidConfigWriteChangesNothing ==
    [][\A p \in Procs :
         (/\ pc[p] \in {"idle", "c_ws"}
          /\ pc'[p] # pc[p]
          /\ loc'[p].key # None
          /\ \/ loc'[p].key \notin {"trunk_bookmark", "check_command", "strategy"}
             \/ loc'[p].key = "strategy" /\ loc'[p].val \notin {"merge", "rebase"}) =>
            /\ pc[p] = "c_ws" => pc'[p] = "done" /\ rc'[p].kind = "Err"
            /\ meta' = meta
            /\ \A k \in {"trunk_bookmark", "check_command", "strategy"} :
                   ConfigRead(meta', k) = ConfigRead(meta, k)]_vars

\* An unknown key refused on a repository that was never initialised.
C24_Witness ==
    \E p \in Procs :
        /\ pc[p] = "done"
        /\ rc[p] = Result("Err", "unknown config key")
        /\ meta = NoMeta

\* The steps of a delete by p.
DeleteLabels == {"d_q", "d_f", "d_delq", "d_delf", "d_forget"}
DeleteActs(p) == pc[p] \in DeleteLabels /\ pc'[p] # pc[p]

\* No step of a delete of N touches the bookmarks of another id, trunk or
\* last_id, and a step that returns an error touches nothing.
DeleteFrame(p) ==
    /\ \A n \in Ids \ {loc[p].id} :
          /\ queue'[n] = queue[n]
          /\ (n \in failed') = (n \in failed)
          /\ headDesc'[n] = headDesc[n]
    /\ trunk' = trunk
    /\ meta'.last_id = meta.last_id
    /\ (pc'[p] = "done" /\ rc'[p].kind = "Err") => repo' = repo

\* delete looks in the queue first and in the failed set second, and removes
\* the bookmark it found.
DeleteOrder(p) ==
    /\ pc[p] = "d_q" =>
          pc'[p] = (IF queue[loc[p].id] # NoCand THEN "d_delq" ELSE "d_f")
    /\ pc[p] = "d_f" =>
          IF loc[p].id \in failed THEN pc'[p] = "d_delf"
          ELSE pc'[p] = "done" /\ rc'[p] = Result("Err", "item not found in queue or failed")
    /\ (pc[p] = "d_delq" /\ queue[loc[p].id] # NoCand) =>
          /\ queue'[loc[p].id] = NoCand
          /\ failed' = failed
          /\ rc'[p] = Result("Ok", "deleted queued item")
    /\ (pc[p] = "d_delf" /\ loc[p].id \in failed) =>
          /\ loc[p].id \notin failed'
          /\ queue' = queue
          /\ pc'[p] = "d_forget"
    /\ pc[p] = "d_forget" => rc'[p] = Result("Ok", "deleted failed item")

\* C25 as stated: delete N removes the queue bookmark of N, else the failed
\* bookmark of N, else fails with not-found, and not-found is its only error; the
\* bookmarks of other ids, trunk and last_id are unchanged, and nothing changes
\* on the error.
C25_DeleteRemovesOrNotFound ==
    [][\A p \in Procs :
         DeleteActs(p) =>
            /\ DeleteFrame(p)
            /\ DeleteOrder(p)
            /\ (pc'[p] = "done" /\ rc'[p].kind = "Err") =>
                   rc'[p].msg = "item not found in queue or failed"]_vars

\* C25, amended: as above, but a delete also fails, with jj's error and
\* nothing changed, when the bookmark it found is gone by the time it calls
\* jj bookmark delete.
C25_DeleteRemovesOrFails ==
    [][\A p \in Procs :
         DeleteActs(p) =>
            /\ DeleteFrame(p)
            /\ DeleteOrder(p)
            /\ (pc'[p] = "done" /\ rc'[p].kind = "Err") =>
                   \/ rc'[p].msg = "item not found in queue or failed"
                   \/ /\ rc'[p].msg = "jj bookmark delete failed"
                      /\ \/ pc[p] = "d_delq" /\ queue[loc[p].id] = NoCand
                         \/ pc[p] = "d_delf" /\ loc[p].id \notin failed]_vars

\* A delete found its id in the failed set only and removed that bookmark
\* and the workspace, while the other id is still queued.
C25_Witness ==
    /\ pc["p2"] = "done"
    /\ loc["p2"].arg.kind = "delete"
    /\ rc["p2"] = Result("Ok", "deleted failed item")
    /\ loc["p2"].id \notin failed
    /\ loc["p2"].id \notin wsReg
    /\ \E n \in Ids : n # loc["p2"].id /\ queue[n] # NoCand

\* The positions inside the critical section of each lock: a run from its run
\* lock to its return, next_id from its id lock to its return, and a config
\* read or write from its config lock to the drop of that lock.
Section(n) ==
    CASE n = "run" -> RunLocked
      [] n = "id" -> {"n_ws", "n_set", "n_ret"}
      [] OTHER -> {"r_cfgread", "c_ws", "c_set", "c_ret", "i_create", "i_squash"}

\* C26: a lock is held only by a process inside the critical section of that
\* lock, whichever way the section was left (return, error of a jj call, death
\* of the process); so when no process is inside the section the lock is free
\* and the next acquire succeeds.
C26_LocksReleasedOnEveryExit ==
    \A n \in LockNames :
        /\ lock[n] # None => pc[lock[n]] \in Section(n)
        /\ (\A p \in Procs : pc[p] \notin Section(n)) => LockFree(n)

\* A run died while it held the run lock, and the lock is free again.
C26_Witness ==
    /\ budget.crash = 0
    /\ wsReg # {}
    /\ failed = {}
    /\ \A p \in Procs : pc[p] = "idle"
    /\ \A n \in LockNames : LockFree(n)

\* C27: next_id on last_id = 999999 fails with the usage error in the step that
\* reads last_id, leaving last_id and the queue bookmarks as they are; and no
\* id that is allocated, held by a push or written to last_id lies outside
\* 1..999999.
C27_ExhaustedAtSeqMax ==
    [][/\ \A p \in Procs :
            (pc[p] = "n_ws" /\ pc'[p] # pc[p] /\ meta.last_id = 999999) =>
                /\ pc'[p] = "done"
                /\ rc'[p] = Result("Usage", "sequence ID exhausted")
                /\ meta' = meta
                /\ queue' = queue
       /\ \A i \in DOMAIN allocLog' : allocLog'[i].id \in 1..999999
       /\ \A p \in Procs : pc'[p] \in {"n_set", "n_ret", "p_create", "p_done"} =>
                               loc'[p].id \in 1..999999
       /\ \A n \in DOMAIN queue' : queue'[n] # NoCand => n \in 1..999999
       /\ meta'.last_id <= 999999]_vars

\* Id 999999 was allocated and queued, and the next push found the ids
\* exhausted.
C27_Witness ==
    \E p \in Procs :
        /\ pc[p] = "done"
        /\ rc[p] = Result("Usage", "sequence ID exhausted")
        /\ meta.last_id = 999999
        /\ queue[999999] # NoCand

\* The positions of run_one before it builds a workspace.
BeforeWorkspace == {"r_next", "r_cfglock", "r_cfgread", "r_lock"}

\* C28: no step of run_one up to and including its try for the run lock
\* changes a bookmark, trunk, the metadata branch, a workspace or the run log;
\* a run_one that returns from there (queue empty, config lock unavailable,
\* check_command unset, run lock unavailable) has changed nothing.
C28_EarlyReturnChangesNothing ==
    [][\A p \in Procs :
         (pc[p] \in BeforeWorkspace /\ pc'[p] # pc[p]) =>
            /\ repo' = repo
            /\ runlog' = runlog
            /\ pc'[p] = "done" =>
                  rc'[p] \in {Result("Empty", ""),
                              Result("Err", "config lock unavailable"),
                              Result("Failure", "check_command not configured"),
                              Result("Failure", "run lock unavailable")}]_vars

\* A run found the run lock held by a run that has its workspace, with a run
\* log on disk.
C28_Witness ==
    \E p \in Procs :
        /\ pc[p] = "done"
        /\ rc[p] = Result("Failure", "run lock unavailable")
        /\ lock["run"] \notin {None, p}
        /\ wsReg # {}
        /\ runlog # <<>>

\* The run of p returns in this step.
RunEnds(p) == pc[p] \in RunLocked /\ pc'[p] = "done"

\* Entry n is recorded as failed for the given reason by the run of p: no
\* queue bookmark, the failed bookmark on a head that carries the six
\* trailers, the workspace kept under the path that the jjq-workspace trailer
\* and workspace/N on the metadata branch both name, the run lock dropped.
MarkedFailed(p, n, reason) ==
    /\ queue'[n] = NoCand
    /\ n \in failed'
    /\ headDesc'[n] = failure_description(n, reason, loc[p].cand, loc[p].snap, loc[p].strat)
    /\ headDesc'[n].workspace = n
    /\ n \in meta'.ws
    /\ n \in wsReg'
    /\ lock'["run"] # p

\* C29: a run whose check command exited non-zero for entry N ends with N
\* recorded as failed for reason check, and no step of it after the check
\* moves trunk.
C29_CheckFailureIsRecorded ==
    [][\A p \in Procs :
         (loc[p].chk = "fail" /\ pc'[p] # pc[p]) =>
            /\ trunk' = trunk
            /\ RunEnds(p) => MarkedFailed(p, loc[p].id, "check")]_vars

\* C30: a run whose workspace head has conflicts ends with N recorded as
\* failed for reason conflicts; it never runs the check command, and no step
\* of it writes the run log or moves trunk.
C30_ConflictIsRecorded ==
    [][\A p \in Procs :
         (loc[p].reason = "conflicts" /\ pc'[p] # pc[p]) =>
            /\ trunk' = trunk
            /\ runlog' = runlog
            /\ loc'[p].chk = None \/ pc'[p] = "idle"
            /\ pc'[p] \notin {"r_check", "k_run", "k_ret"}
            /\ RunEnds(p) => MarkedFailed(p, loc[p].id, "conflicts")]_vars

\* The positions of a run on its empty path.
EmptyPath == {"s_del", "s_abandon", "s_forget"}

\* C31: a run that found the workspace head's tree equal to trunk's tree
\* returns Skipped with the queue bookmark of N deleted, no failed bookmark of
\* N, the check command not run, the workspace forgotten, every duplicate
\* abandoned and the run lock dropped; no step of it moves trunk.
C31_EmptyIsSkipped ==
    [][\A p \in Procs :
         (pc[p] \in EmptyPath /\ pc'[p] # pc[p]) =>
            /\ trunk' = trunk
            /\ pc'[p] = "done" =>
                  /\ rc'[p] = Result("Skipped", "")
                  /\ queue'[loc[p].id] = NoCand
                  /\ loc[p].id \notin failed'
                  /\ loc[p].chk = None
                  /\ loc[p].id \notin wsReg'
                  /\ loc[p].id \notin dups'
                  /\ lock'["run"] # p]_vars

\* The returns of a run that do not mark the item failed.
NotMarkedFailed ==
    {Result("Success", ""), Result("Skipped", ""),
     Result("Failure", "trunk moved during run")}

Returns(p) ==
    \/ pc[p] # "done" /\ pc'[p] = "done"
    \/ pc[p] = "n_ret" /\ pc'[p] = "p_create"

C34_WorkspaceAddOnFreeName ==
    [][\A p \in Procs :
         (pc[p] = "r_wsadd" /\ pc'[p] # pc[p]) => loc[p].id \notin wsReg]_vars

\* C35: when delete N of a failed entry returns, the failed bookmark of N is
\* gone, jjq-run-N is not registered and the workspace directory recorded for
\* N is not on disk; it returns success whether or not the workspace was
\* still registered.
C35_DeleteFailedCleansUp ==
    [][\A p \in Procs :
         (pc[p] = "d_forget" /\ pc'[p] # pc[p]) =>
            /\ rc'[p] = Result("Ok", "deleted failed item")
            /\ loc[p].id \notin failed'
            /\ loc[p].id \notin wsReg'
            /\ loc[p].id \notin wsDir']_vars

\* A failed entry whose workspace was no longer registered has been deleted.
C35_Witness ==
    \E p \in Procs :
       /\ pc[p] = "done" /\ rc[p] = Result("Ok", "deleted failed item")
       /\ loc[p].seen = "missing"
       /\ headDesc[loc[p].id] # NoDesc /\ headDesc[loc[p].id] # WipDesc
       /\ loc[p].id \notin failed \cup wsReg \cup wsDir

\* The positions of "jjq status", and the set of ids of a list.
StatusLabels == {"st_probe", "st_unlock", "st_queue", "st_failed", "st_build"}
ListedIds(s) == {s[i] : i \in DOMAIN s}

\* What status reports: running is the state of the run lock at the probe;
\* the lists are the queue entries in ascending and the failed entries in
\* descending order of id, each complete when it is taken.
StatusReport(p) ==
    /\ pc[p] = "st_probe" => loc'[p].running = (lock["run"] # None)
    /\ pc[p] = "st_queue" =>
          /\ ListedIds(loc'[p].qlist) = QueueIds
          /\ \A i, j \in DOMAIN loc'[p].qlist : i < j => loc'[p].qlist[i] < loc'[p].qlist[j]
    /\ pc[p] = "st_failed" =>
          /\ ListedIds(loc'[p].flist) = failed
          /\ \A i, j \in DOMAIN loc'[p].flist : i < j => loc'[p].flist[i] > loc'[p].flist[j]

\* C36: status reports running exactly when the run lock is held at the
\* probe, lists the queue ascending and the failed entries descending, and no
\* step of it changes a bookmark, the metadata or the owner of a lock.
C36_StatusReadsOnly ==
    [][\A p \in Procs :
         (pc[p] \in StatusLabels /\ pc'[p] # pc[p]) =>
            /\ StatusReport(p)
            /\ pc'[p] = "done" => rc'[p] = Result("Ok", "status")
            /\ repo' = repo
            /\ lock' = lock]_vars

\* C36, amended: the report is as stated and no step of status changes a
\* bookmark or the metadata; status holds the run lock from a probe that found
\* it free until the unlock that follows and holds no lock when it returns;
\* it returns an error instead of the report only when a queue entry it
\* listed is gone.
C36_StatusProbesAndReads ==
    [][\A p \in Procs :
         (pc[p] \in StatusLabels /\ pc'[p] # pc[p]) =>
            /\ StatusReport(p)
            /\ pc'[p] = "done" =>
                  /\ \A n \in LockNames : lock'[n] # p
                  /\ \/ rc'[p] = Result("Ok", "status")
                     \/ /\ rc'[p] = Result("Err", "revset not found")
                        /\ ListedIds(loc[p].qlist) \ QueueIds # {}
            /\ repo' = repo
            /\ \A n \in LockNames \ {"run"} : lock'[n] = lock[n]
            /\ lock'["run"] # lock["run"] =>
                  \/ pc[p] = "st_probe" /\ lock["run"] = None /\ lock'["run"] = p
                  \/ pc[p] = "st_unlock" /\ lock["run"] = p /\ lock'["run"] = None]_vars

\* Status has reported a run in progress, one queued and one failed entry.
C36_Witness ==
    \E p \in Procs :
       /\ pc[p] = "done" /\ rc[p] = Result("Ok", "status")
       /\ loc[p].running
       /\ loc[p].qlist # <<>> /\ loc[p].flist # <<>>

\* Process p has returned from a successful delete of the queued item n.
DeletedQueued(p, n) ==
    /\ pc[p] = "done" /\ rc[p] = Result("Ok", "deleted queued item")
    /\ loc[p].id = n

\* C37: once delete N of a queued item has returned successfully, no step
\* lands candidate N on trunk or creates the failed bookmark of N.
C37_DeletedIsNeverProcessed ==
    [][\A p \in Procs : \A n \in Ids :
         DeletedQueued(p, n) =>
            /\ \A r \in landLog' \ landLog : r.id # n
            /\ n \in failed' => n \in failed]_vars

\* C38: a run returns "run lock unavailable" only when another process that
\* is a run holds the run lock; a lock-state probe never makes it fail.
C38_RunLockFailsOnlyOnRun ==
    [][\A p \in Procs :
         (pc[p] = "r_lock" /\ rc'[p] = Result("Failure", "run lock unavailable")) =>
            \E q \in Procs \ {p} : lock["run"] = q /\ pc[q] \in RunLocked]_vars

\* C39: no two queue bookmarks target the same commit ID or the same change
\* ID.
C39_QueueEntriesDistinct ==
    \A n, m \in QueueIds :
       n # m => /\ queue[n].commit # queue[m].commit
                /\ queue[n].change # queue[m].change

\* C40: every queue bookmark and every failed bookmark carries an id between
\* 1 and the last_id of the metadata branch.
C40_IdsWithinLastId ==
    \A n \in QueueIds \cup failed : 1 <= n /\ n <= meta.last_id

\* Two ids have been allocated; one entry is queued and one has failed.
C40_Witness ==
    /\ meta.last_id = MaxId
    /\ QueueIds # {} /\ failed # {}

====
